---------------------------- MODULE Spec2Model ----------------------------
(***************************************************************************)
(* Model of the ln-chat backend: the chat pipeline of backend/main.py      *)
(* (generate SQL -> execute -> summarize), the direct query endpoint, and  *)
(* LocalVannaService (backend/vanna_service.py): generate_sql,             *)
(* generate_summary, get_relevant_context, is_contextual_question, train.  *)
(*                                                                         *)
(* Python strings are TLA+ strings (TLC treats them as sequences of        *)
(* characters: Len, SubSeq and \o work on them).  A TLA+ string literal    *)
(* cannot hold the backtick character, so "#" stands for it throughout.    *)
(* Python values that may be None, a string or a number are tagged         *)
(* records.  A Python call that may raise is an operator returning         *)
(* [raised, ...]; try/except is the test of that flag.                     *)
(***************************************************************************)
EXTENDS Integers, Sequences, FiniteSets, TLC

VARIABLES
    collectionOk,   \* self.collection is not None (init_chromadb succeeded)
    store,          \* the fragments of the collection, in insertion order
    nextId,         \* the next uuid4 (fresh ids are modelled by a counter)
    pc,             \* position of the chat handler: idle/generated/executed/responded
    req,            \* the ChatRequest being served
    sql,            \* chat_with_vanna's local `sql`
    results,        \* chat_with_vanna's local `results`
    resp,           \* the response returned by the last endpoint call
    escaped,        \* an exception left the last handler / function
    calls,          \* external calls made by the running operation, in order
    out,            \* record of the last direct service call and its result
    pool,           \* database.connection_pool and the running get_db_connection
    chat_history,   \* st.session_state.chat_history of the chat client
    trainer         \* the VannaTrainer: its stats and the position of run()

vars == <<collectionOk, store, nextId, pc, req, sql, results, resp, escaped, calls, out,
          pool, chat_history, trainer>>

---------------------------------------------------------------------------
(* Bounds of the model                                                     *)

MaxStore == 2
MaxRows == 52
MaxHistory == 9

---------------------------------------------------------------------------
(* Python values                                                           *)

PyNone == [t |-> "none"]
Missing == [t |-> "missing"]
S(s) == [t |-> "str", s |-> s]
I(n) == [t |-> "int", n |-> n]

Min(a, b) == IF a < b THEN a ELSE b

\* bool(v)
Truthy(v) ==
    CASE v.t = "str" -> v.s # ""
      [] v.t = "int" -> v.n # 0
      [] OTHER -> FALSE

\* str(v), as an f-string renders a value
StrOf(v) ==
    CASE v.t = "str" -> v.s
      [] v.t = "int" -> ToString(v.n)
      [] OTHER -> "None"

\* repr(v), as str() of a container renders its elements
ReprOf(v) ==
    CASE v.t = "str" -> "'" \o v.s \o "'"
      [] v.t = "int" -> ToString(v.n)
      [] OTHER -> "None"

---------------------------------------------------------------------------
(* String functions of the Python standard library                         *)

Backtick == "#"
Fence == Backtick \o Backtick \o Backtick

LowerLetters == "abcdefghijklmnopqrstuvwxyzáéíóúñü"
UpperLetters == "ABCDEFGHIJKLMNOPQRSTUVWXYZÁÉÍÓÚÑÜ"

Ch(s, i) == SubSeq(s, i, i)

IndexIn(alphabet, c) ==
    IF \E i \in 1..Len(alphabet) : Ch(alphabet, i) = c
    THEN CHOOSE i \in 1..Len(alphabet) : Ch(alphabet, i) = c
    ELSE 0

UpperChar(c) ==
    LET i == IndexIn(LowerLetters, c) IN IF i = 0 THEN c ELSE Ch(UpperLetters, i)

LowerChar(c) ==
    LET i == IndexIn(UpperLetters, c) IN IF i = 0 THEN c ELSE Ch(LowerLetters, i)

RECURSIVE StrUpper(_)
\* str.upper()
StrUpper(s) ==
    IF s = "" THEN "" ELSE UpperChar(Ch(s, 1)) \o StrUpper(SubSeq(s, 2, Len(s)))

RECURSIVE StrLower(_)
\* str.lower()
StrLower(s) ==
    IF s = "" THEN "" ELSE LowerChar(Ch(s, 1)) \o StrLower(SubSeq(s, 2, Len(s)))

\* `k in s` for strings
Contains(s, k) ==
    \E i \in 1..(Len(s) - Len(k) + 1) : SubSeq(s, i, i + Len(k) - 1) = k

IsSpace(c) == c \in {" ", "\n", "\t", "\r"}

RECURSIVE LStrip(_)
LStrip(s) ==
    IF s # "" /\ IsSpace(Ch(s, 1)) THEN LStrip(SubSeq(s, 2, Len(s))) ELSE s

RECURSIVE RStrip(_)
RStrip(s) ==
    IF s # "" /\ IsSpace(Ch(s, Len(s))) THEN RStrip(SubSeq(s, 1, Len(s) - 1)) ELSE s

\* str.strip()
Strip(s) == RStrip(LStrip(s))

RECURSIVE Replace(_, _, _)
\* str.replace(old, new) for a non-empty old: leftmost non-overlapping matches
Replace(s, old, new) ==
    IF Len(s) < Len(old) THEN s
    ELSE IF SubSeq(s, 1, Len(old)) = old
         THEN new \o Replace(SubSeq(s, Len(old) + 1, Len(s)), old, new)
         ELSE Ch(s, 1) \o Replace(SubSeq(s, 2, Len(s)), old, new)

RECURSIVE Join(_, _)
\* sep.join(parts)
Join(sep, parts) ==
    IF parts = <<>> THEN ""
    ELSE IF Len(parts) = 1 THEN parts[1]
    ELSE parts[1] \o sep \o Join(sep, Tail(parts))

\* seq[-k:]
LastK(seq, k) == SubSeq(seq, IF Len(seq) > k THEN Len(seq) - k + 1 ELSE 1, Len(seq))

\* seq[:k]
FirstK(seq, k) == SubSeq(seq, 1, Min(k, Len(seq)))

---------------------------------------------------------------------------
(* Result rows: a DictCursor row is a mapping (keys, vals); a plain cursor *)
(* row is a tuple (vals only).                                             *)

DictRow(keys, vals) == [kind |-> "dict", keys |-> keys, vals |-> vals]
TupleRow(vals) == [kind |-> "tuple", keys |-> <<>>, vals |-> vals]
T(vals) == [t |-> "tuple", vals |-> vals]

ReprTuple(vals) ==
    "(" \o Join(", ", [i \in 1..Len(vals) |-> ReprOf(vals[i])])
        \o (IF Len(vals) = 1 THEN "," ELSE "") \o ")"

\* repr of a dict value: a scalar, or the whole tuple row
ReprVal(v) == IF v.t = "tuple" THEN ReprTuple(v.vals) ELSE ReprOf(v)

\* repr(row)
ReprRow(row) ==
    IF row.kind = "dict"
    THEN "{" \o Join(", ", [i \in 1..Len(row.vals) |->
                 "'" \o row.keys[i] \o "': " \o ReprVal(row.vals[i])]) \o "}"
    ELSE ReprTuple(row.vals)

\* str(list_of_rows)
ReprList(rows) == "[" \o Join(", ", [i \in 1..Len(rows) |-> ReprRow(rows[i])]) \o "]"

---------------------------------------------------------------------------
(* Conversation turns: dicts whose keys may be absent                      *)

Turn(q, s, a) == [question |-> q, sql |-> s, answer |-> a]

\* interaction.get(key, '')
GetOr(v, default) == IF v.t = "missing" THEN default ELSE v

\* interaction.get(key)
Get(v) == IF v.t = "missing" THEN PyNone ELSE v

---------------------------------------------------------------------------
(* LocalVannaService.is_contextual_question                                *)

contextual_patterns ==
    << "y cuánt", "y los", "y las", "y el", "y la",
       "mismo", "misma", "igual",
       "pero", "sin embargo",
       "también", "además",
       "anterior", "previo",
       "comparar", "diferencia",
       "primero", "último",
       "resto", "demás", "otros",
       "ahora", "entonces",
       "ese", "esa", "esos", "esas",
       "dicho", "mencionado" >>

\* Mutation of is_contextual_question: the question is not lowered
is_contextual_question_case_sensitive(question) ==
    \E i \in 1..Len(contextual_patterns) : Contains(question, contextual_patterns[i])

is_contextual_question(question) ==
    LET question_lower == StrLower(question)
    IN  \E i \in 1..Len(contextual_patterns) :
            Contains(question_lower, contextual_patterns[i])

---------------------------------------------------------------------------
(* LocalVannaService.get_relevant_context                                  *)
(* qres is what collection.query does: it raises, or returns ranked hits.  *)

Fragment(id, document, type) == [id |-> id, document |-> document, type |-> type]

\* Mutation of ContextPart: the branch for question_sql fragments is missing
ContextPart_without_examples(hit) ==
    CASE hit.type = "ddl" -> <<"Table Schema:\n" \o hit.document>>
      [] hit.type = "documentation" -> <<"Documentation:\n" \o hit.document>>
      [] OTHER -> <<>>

ContextPart(hit) ==
    CASE hit.type = "ddl" -> <<"Table Schema:\n" \o hit.document>>
      [] hit.type = "documentation" -> <<"Documentation:\n" \o hit.document>>
      [] hit.type = "question_sql" -> <<"Example:\n" \o hit.document>>
      [] OTHER -> <<>>

RECURSIVE ContextParts(_)
ContextParts(hits) ==
    IF hits = <<>> THEN <<>> ELSE ContextPart(Head(hits)) \o ContextParts(Tail(hits))

\* Mutation of get_relevant_context: the except clause returns the error text
get_relevant_context_error_text(collection, qres) ==
    IF ~collection THEN ""
    ELSE IF qres.kind = "raise" THEN "Error obteniendo contexto"
    ELSE Join("\n\n", ContextParts(qres.hits))

get_relevant_context(collection, qres) ==
    IF ~collection THEN ""
    ELSE IF qres.kind = "raise" THEN ""
    ELSE Join("\n\n", ContextParts(qres.hits))

---------------------------------------------------------------------------
(* The language model: openai.chat.completions.create and the read of      *)
(* response.choices[0].message.content.  It raises (unreachable, quota),   *)
(* or answers without usable content (malformed), or answers with a text.  *)

LlmRaise == [kind |-> "raise", text |-> ""]
LlmMalformed == [kind |-> "malformed", text |-> ""]
LlmText(s) == [kind |-> "text", text |-> s]

SUMMARY_RESULT_LIMIT == 50
SQL_ANSWER_BUDGET == 200
SUMMARY_ANSWER_BUDGET == 150
SUMMARY_HISTORY_LIMIT == 3

---------------------------------------------------------------------------
(* LocalVannaService.generate_sql                                          *)

\* Mutation of SqlAnswerSummary: the answer is never cut
SqlAnswerSummary_uncut(interaction) ==
    LET answer == Get(interaction.answer)
    IN  IF ~Truthy(answer) THEN [raised |-> FALSE, text |-> ""]
        ELSE IF answer.t # "str" THEN [raised |-> TRUE, text |-> ""]
        ELSE [raised |-> FALSE, text |-> "Answer summary: " \o answer.s \o "\n"]

\* the excerpt of one interaction's answer (lines 181-186); len() of a
\* non-string answer raises TypeError
SqlAnswerSummary(interaction) ==
    LET answer == Get(interaction.answer)
    IN  IF ~Truthy(answer) THEN [raised |-> FALSE, text |-> ""]
        ELSE IF answer.t # "str" THEN [raised |-> TRUE, text |-> ""]
        ELSE [raised |-> FALSE,
              text |-> "Answer summary: "
                       \o (IF Len(answer.s) > SQL_ANSWER_BUDGET
                           THEN SubSeq(answer.s, 1, SQL_ANSWER_BUDGET) \o "..."
                           ELSE answer.s)
                       \o "\n"]

\* the body of the loop at lines 177-186 for the i-th interaction of the window
SqlInteraction(i, interaction) ==
    LET a == SqlAnswerSummary(interaction)
    IN  [raised |-> a.raised,
         text |-> "\nInteraction " \o ToString(i) \o ":\n"
                  \o "User asked: " \o StrOf(GetOr(interaction.question, S(""))) \o "\n"
                  \o "SQL generated: " \o StrOf(GetOr(interaction.sql, S(""))) \o "\n"
                  \o a.text]

\* Mutation of history_limit: the window does not grow for a contextual question
history_limit_fixed(is_contextual) == 5

history_limit(is_contextual) == IF is_contextual THEN 7 ELSE 5

\* lines 171-186
SqlConversationContext(conversation_history, is_contextual) ==
    IF conversation_history = <<>> THEN [raised |-> FALSE, text |-> ""]
    ELSE LET window == LastK(conversation_history, history_limit(is_contextual))
             parts == [i \in 1..Len(window) |-> SqlInteraction(i, window[i])]
         IN  [raised |-> \E i \in 1..Len(window) : parts[i].raised,
              text |-> "\n\nPREVIOUS CONVERSATION CONTEXT:\n"
                       \o Join("", [i \in 1..Len(window) |-> parts[i].text])]

\* lines 189-206: the fixed rules, plus the note for a contextual question
SqlSystemPrompt(conversation_history, is_contextual) ==
    [rules |-> "sql_expert_rules",
     contextual_note |-> is_contextual /\ conversation_history # <<>>]

\* Mutation of SqlUserPrompt: the conversation context is left out
SqlUserPrompt_without_conversation(db_context, conversation_context, question) ==
    "DATABASE CONTEXT:\n" \o db_context \o "\n"
    \o "\n\nCURRENT USER QUESTION:\n" \o question \o "\n\nSQL QUERY:\n"

\* lines 208-216
SqlUserPrompt(db_context, conversation_context, question) ==
    "DATABASE CONTEXT:\n" \o db_context \o "\n" \o conversation_context
    \o "\n\nCURRENT USER QUESTION:\n" \o question \o "\n\nSQL QUERY:\n"

\* lines 229-232
CleanSql(content) ==
    Strip(Replace(Replace(Strip(content), Fence \o "sql", ""), Fence, ""))

\* the try block, lines 160-235: [raised, ret, prompts sent to the model]
GenerateSqlBody(question, conversation_history, db_context, llm) ==
    LET is_contextual == is_contextual_question(question)
        conv == SqlConversationContext(conversation_history, is_contextual)
        prompt == [system |-> SqlSystemPrompt(conversation_history, is_contextual),
                   user |-> SqlUserPrompt(db_context, conv.text, question),
                   max_tokens |-> 250]
    IN  IF conv.raised THEN [raised |-> TRUE, ret |-> PyNone, prompts |-> <<>>]
        ELSE IF llm.kind # "text"
             THEN [raised |-> TRUE, ret |-> PyNone, prompts |-> <<prompt>>]
        ELSE [raised |-> FALSE, ret |-> S(CleanSql(llm.text)), prompts |-> <<prompt>>]

\* Mutation of generate_sql: the try block without its except clause
generate_sql_without_except(question, conversation_history, db_context, llm) ==
    GenerateSqlBody(question, conversation_history, db_context, llm)

\* lines 158-239: the except clause turns every exception into None
generate_sql(question, conversation_history, db_context, llm) ==
    LET body == GenerateSqlBody(question, conversation_history, db_context, llm)
    IN  IF body.raised
        THEN [raised |-> FALSE, ret |-> PyNone, prompts |-> body.prompts]
        ELSE body

---------------------------------------------------------------------------
(* LocalVannaService.generate_summary                                      *)

NO_RESULTS_MESSAGE ==
    "No se encontraron resultados para tu consulta. Parece que no hay datos que coincidan con lo que buscas."

\* re.search(r'SELECT\s+(.*?)\s+FROM', sql, re.IGNORECASE): SELECT, a run of
\* whitespace, characters other than newline, a run of whitespace, FROM
SelectMatch(sql_text) ==
    LET u == StrUpper(sql_text)
        n == Len(u)
    IN  \E i \in 1..n :
            /\ SubSeq(u, i, i + 5) = "SELECT"
            /\ \E j \in (i + 8)..n :
                   /\ SubSeq(u, j, j + 3) = "FROM"
                   /\ \E a \in (i + 6)..(j - 2), b \in (i + 7)..(j - 1) :
                          /\ a < b
                          /\ \A k \in (i + 6)..a : IsSpace(Ch(u, k))
                          /\ \A k \in (a + 1)..(b - 1) : Ch(u, k) # "\n"
                          /\ \A k \in b..(j - 1) : IsSpace(Ch(u, k))

\* row[0]: IndexError on an empty tuple, KeyError on a mapping
RowHasFirst(row) == row.kind = "tuple" /\ Len(row.vals) >= 1

\* Mutation of ResultsToSend: the rows are not cut to SUMMARY_RESULT_LIMIT
ResultsToSend_uncapped(sql_text, rows) ==
    IF rows # <<>> /\ rows[1].kind = "tuple"
    THEN IF SelectMatch(sql_text) /\ Contains(StrUpper(sql_text), "COUNT")
         THEN [raised |-> \E i \in 1..Len(rows) : ~RowHasFirst(rows[i]),
               rows |-> [i \in 1..Len(rows) |->
                           IF RowHasFirst(rows[i])
                           THEN DictRow(<<"count">>, <<rows[i].vals[1]>>)
                           ELSE rows[i]]]
         ELSE [raised |-> \E i \in 1..Len(rows) :
                              Len(rows[i].vals) = 1 /\ ~RowHasFirst(rows[i]),
               rows |-> [i \in 1..Len(rows) |->
                           DictRow(<<"resultado">>,
                               <<IF Len(rows[i].vals) = 1 THEN rows[i].vals[1]
                                 ELSE T(rows[i].vals)>>)]]
    ELSE [raised |-> FALSE, rows |-> rows]

\* lines 255-261: positional rows are relabelled before being stringified
ResultsToSend(sql_text, rows) ==
    LET results_to_send == FirstK(rows, SUMMARY_RESULT_LIMIT)
    IN  IF results_to_send # <<>> /\ results_to_send[1].kind = "tuple"
        THEN IF SelectMatch(sql_text) /\ Contains(StrUpper(sql_text), "COUNT")
             THEN [raised |-> \E i \in 1..Len(results_to_send) :
                                  ~RowHasFirst(results_to_send[i]),
                   rows |-> [i \in 1..Len(results_to_send) |->
                               IF RowHasFirst(results_to_send[i])
                               THEN DictRow(<<"count">>, <<results_to_send[i].vals[1]>>)
                               ELSE results_to_send[i]]]
             ELSE [raised |-> \E i \in 1..Len(results_to_send) :
                                  /\ Len(results_to_send[i].vals) = 1
                                  /\ ~RowHasFirst(results_to_send[i]),
                   rows |-> [i \in 1..Len(results_to_send) |->
                               DictRow(<<"resultado">>,
                                   <<IF Len(results_to_send[i].vals) = 1
                                     THEN results_to_send[i].vals[1]
                                     ELSE T(results_to_send[i].vals)>>)]]
        ELSE [raised |-> FALSE, rows |-> results_to_send]

\* lines 271-277 for one interaction; len() of a non-string answer raises
SummaryInteraction(interaction) ==
    LET question == Get(interaction.question)
        answer == Get(interaction.answer)
    IN  IF ~(Truthy(question) /\ Truthy(answer)) THEN [raised |-> FALSE, text |-> ""]
        ELSE IF answer.t # "str" THEN [raised |-> TRUE, text |-> ""]
        ELSE [raised |-> FALSE,
              text |-> "\n- Preguntaste: " \o StrOf(question)
                       \o "\n  Respondí: "
                       \o (IF Len(answer.s) > SUMMARY_ANSWER_BUDGET
                           THEN SubSeq(answer.s, 1, SUMMARY_ANSWER_BUDGET) \o "..."
                           ELSE answer.s)]

\* lines 265-277
SummaryConversationContext(conversation_history) ==
    IF conversation_history = <<>> THEN [raised |-> FALSE, text |-> ""]
    ELSE LET window == LastK(conversation_history, SUMMARY_HISTORY_LIMIT)
             parts == [i \in 1..Len(window) |-> SummaryInteraction(window[i])]
         IN  [raised |-> \E i \in 1..Len(window) : parts[i].raised,
              text |-> "\n\nContexto de conversación previa:"
                       \o Join("", [i \in 1..Len(window) |-> parts[i].text])]

\* lines 300-302
TruncationNote(rows) ==
    IF Len(rows) > SUMMARY_RESULT_LIMIT
    THEN "\n\nNota: La consulta encontró " \o ToString(Len(rows))
         \o " resultados en total, pero estoy mostrando solo los primeros "
         \o ToString(SUMMARY_RESULT_LIMIT) \o "."
    ELSE ""

\* lines 280-302: the fixed instructions with their holes, and the note
SummaryPrompt(question, sql_text, results_str, conversation_context, note) ==
    [instructions |-> "explica_resultados",
     question |-> question,
     sql |-> sql_text,
     results_str |-> results_str,
     conversation_context |-> conversation_context,
     note |-> note,
     max_tokens |-> 500]

\* Mutation of SummaryFallback: only the single-value cases are handled
SummaryFallback_single_value_only(sql_text, rows) ==
    IF rows # <<>> /\ Len(rows) = 1 /\ Len(rows[1].vals) = 1
    THEN "El valor encontrado es: " \o StrOf(rows[1].vals[1])
    ELSE ""

\* Mutation of SummaryFallback: 'count' is looked for in sql, not in sql.lower()
SummaryFallback_case_sensitive(sql_text, rows) ==
    IF rows # <<>> /\ Len(rows) = 1
       /\ rows[1].kind = "tuple" /\ Len(rows[1].vals) = 1
    THEN IF Contains(sql_text, "count")
         THEN "Según los datos, hay " \o StrOf(rows[1].vals[1])
              \o " registros que cumplen con tu consulta."
         ELSE "El valor encontrado es: " \o StrOf(rows[1].vals[1])
    ELSE IF rows # <<>> /\ Len(rows) = 1
            /\ rows[1].kind = "dict" /\ Len(rows[1].vals) = 1
    THEN "Encontré que el resultado es: " \o StrOf(rows[1].vals[1])
    ELSE "Se encontraron " \o ToString(Len(rows)) \o " resultados para tu consulta."

\* lines 324-336: the templated sentence of the except clause
SummaryFallback(sql_text, rows) ==
    IF rows # <<>> /\ Len(rows) = 1
       /\ rows[1].kind = "tuple" /\ Len(rows[1].vals) = 1
    THEN IF Contains(StrLower(sql_text), "count")
         THEN "Según los datos, hay " \o StrOf(rows[1].vals[1])
              \o " registros que cumplen con tu consulta."
         ELSE "El valor encontrado es: " \o StrOf(rows[1].vals[1])
    ELSE IF rows # <<>> /\ Len(rows) = 1
            /\ rows[1].kind = "dict" /\ Len(rows[1].vals) = 1
    THEN "Encontré que el resultado es: " \o StrOf(rows[1].vals[1])
    ELSE "Se encontraron " \o ToString(Len(rows)) \o " resultados para tu consulta."

\* Mutation of GenerateSummaryBody: the test of empty results is missing
GenerateSummaryBody_without_empty_test(question, sql_text, rows, conversation_history, llm) ==
    LET sent == ResultsToSend(sql_text, rows)
        conv == SummaryConversationContext(conversation_history)
        prompt == SummaryPrompt(question, sql_text, ReprList(sent.rows),
                                conv.text, TruncationNote(rows))
    IN  IF sent.raised \/ conv.raised
        THEN [raised |-> TRUE, ret |-> PyNone, prompts |-> <<>>]
        ELSE IF llm.kind # "text"
             THEN [raised |-> TRUE, ret |-> PyNone, prompts |-> <<prompt>>]
        ELSE [raised |-> FALSE, ret |-> S(Strip(llm.text)), prompts |-> <<prompt>>]

\* the try block, lines 244-320
GenerateSummaryBody(question, sql_text, rows, conversation_history, llm) ==
    IF rows = <<>>
    THEN [raised |-> FALSE, ret |-> S(NO_RESULTS_MESSAGE), prompts |-> <<>>]
    ELSE LET sent == ResultsToSend(sql_text, rows)
             conv == SummaryConversationContext(conversation_history)
             prompt == SummaryPrompt(question, sql_text, ReprList(sent.rows),
                                     conv.text, TruncationNote(rows))
         IN  IF sent.raised \/ conv.raised
             THEN [raised |-> TRUE, ret |-> PyNone, prompts |-> <<>>]
             ELSE IF llm.kind # "text"
                  THEN [raised |-> TRUE, ret |-> PyNone, prompts |-> <<prompt>>]
             ELSE [raised |-> FALSE, ret |-> S(Strip(llm.text)), prompts |-> <<prompt>>]

\* lines 241-336
generate_summary(question, sql_text, rows, conversation_history, llm) ==
    LET body == GenerateSummaryBody(question, sql_text, rows, conversation_history, llm)
    IN  IF body.raised
        THEN [raised |-> FALSE, ret |-> S(SummaryFallback(sql_text, rows)),
              prompts |-> body.prompts]
        ELSE body

---------------------------------------------------------------------------
(* The relational database behind get_db_cursor: the connection cannot be  *)
(* obtained, or cursor.execute raises, or it returns rows.                 *)

DbConnectError == [kind |-> "connect_error",
                   error |-> "No se pudo conectar a la base de datos después de 3 intentos: (2003, 'Connection refused')",
                   rows |-> <<>>]
DbError(e) == [kind |-> "error", error |-> e, rows |-> <<>>]
DbRows(rows) == [kind |-> "rows", error |-> "", rows |-> rows]

---------------------------------------------------------------------------
(* The log of calls made while one operation runs                          *)

\* op: generate_sql, llm, db_connect, db_execute, generate_summary; text: the SQL
\* returned or executed; ok: the call returned normally; detail: its error
Call(op, text, ok, detail) == [op |-> op, text |-> text, ok |-> ok, detail |-> detail]

\* the entry of a generate_sql call that returned g
SqlCall(g) ==
    Call("generate_sql", IF g.ret.t = "str" THEN g.ret.s ELSE "",
         ~g.raised /\ g.ret.t = "str", "")

\* one "llm" entry per prompt a service call sent to the model
LlmCalls(r, llm) == [i \in 1..Len(r.prompts) |-> Call("llm", "", llm.kind = "text", "")]

\* `if not sql` / `if not answer` on an Optional[str]
Falsy(v) == ~Truthy(v)

NoResponse ==
    [endpoint |-> "none", success |-> FALSE, answer |-> Missing, sql |-> Missing,
     error |-> Missing, raw_results |-> <<>>]

NoRequest == [query |-> "", history |-> <<>>]

NoOut ==
    [fn |-> "none", question |-> "", sql |-> "", rows |-> <<>>, history |-> <<>>,
     retrieved |-> FALSE, context |-> "", llm |-> LlmRaise, done |-> FALSE,
     raised |-> FALSE, ret |-> Missing, prompts |-> <<>>,
     arg |-> 0, before |-> <<>>, hits |-> <<>>, listed |-> <<>>]

---------------------------------------------------------------------------
(* backend/main.py: chat_with_vanna                                        *)

REPHRASE_MESSAGE ==
    "No pude generar una consulta SQL para tu pregunta. ¿Podrías reformularla?"

\* the outer except clause, lines 290-298
ChatUnexpectedResponse(e) ==
    [endpoint |-> "chat", success |-> FALSE,
     answer |-> S("Ocurrió un error al procesar tu pregunta: " \o e),
     sql |-> PyNone, error |-> S(e), raw_results |-> <<>>]

\* lines 233-238
ChatRephraseResponse ==
    [endpoint |-> "chat", success |-> FALSE, answer |-> S(REPHRASE_MESSAGE),
     sql |-> PyNone, error |-> Missing, raw_results |-> <<>>]

\* Mutation of ChatExecutionFailedResponse: the database error is left to the
\* outer except clause
ChatExecutionFailedResponse_outer(sql_text, db_error) ==
    ChatUnexpectedResponse(db_error)

\* lines 247-256
ChatExecutionFailedResponse(sql_text, db_error) ==
    [endpoint |-> "chat", success |-> FALSE,
     answer |-> S("Generé la consulta SQL pero hubo un error al ejecutarla: " \o db_error),
     sql |-> S(sql_text), error |-> S(db_error), raw_results |-> <<>>]

\* lines 276-277 / 280-281: "\n{i+1}. {row}" for each listed row
ListedRows(rows) ==
    Join("", [i \in 1..Len(rows) |-> "\n" \o ToString(i) \o ". " \o ReprRow(rows[i])])

\* lines 262-281: the endpoint's own answer when the summarizer gave none
ChatFallbackAnswer(rows) ==
    IF rows = <<>>
    THEN "No encontré resultados para tu consulta. Parece que no hay datos que coincidan con lo que buscas."
    ELSE IF Len(rows) = 1
    THEN IF rows[1].kind = "dict" /\ Len(rows[1].vals) = 1
         THEN "Según los datos disponibles, el resultado es: " \o StrOf(rows[1].vals[1])
         ELSE "Encontré un registro con la siguiente información: " \o ReprRow(rows[1])
    ELSE "Encontré " \o ToString(Len(rows)) \o " registros que coinciden con tu búsqueda."
         \o (IF Len(rows) <= 5
             THEN " Aquí están todos los resultados:" \o ListedRows(rows)
             ELSE " Te muestro los primeros 5:" \o ListedRows(FirstK(rows, 5)))

\* Mutation of ChatSuccessResponse: the summary is returned as it is
ChatSuccessResponse_without_fallback(sql_text, rows, summary) ==
    [endpoint |-> "chat", success |-> TRUE, answer |-> summary,
     sql |-> S(sql_text), error |-> Missing, raw_results |-> FirstK(rows, 10)]

\* lines 259-288
ChatSuccessResponse(sql_text, rows, summary) ==
    [endpoint |-> "chat", success |-> TRUE,
     answer |-> IF Falsy(summary) THEN S(ChatFallbackAnswer(rows)) ELSE summary,
     sql |-> S(sql_text), error |-> Missing, raw_results |-> FirstK(rows, 10)]

---------------------------------------------------------------------------
(* LocalVannaService.train and the vector index                            *)

B(b) == [t |-> "bool", b |-> b]

Kwargs(ddl, documentation, question, sql_text) ==
    [ddl |-> ddl, documentation |-> documentation, question |-> question, sql |-> sql_text]

Has(v) == v.t # "missing"

\* Mutation of train: the id is the position of the new fragment, not a uuid
train_id_by_position(collection, fragments, doc_id, kwargs, add_ok) ==
    IF ~collection THEN [ret |-> FALSE, store |-> fragments]
    ELSE IF Has(kwargs.ddl)
    THEN IF add_ok
         THEN [ret |-> TRUE,
               store |-> Append(fragments, Fragment(Len(fragments) + 1, StrOf(kwargs.ddl), "ddl"))]
         ELSE [ret |-> FALSE, store |-> fragments]
    ELSE IF Has(kwargs.documentation)
    THEN IF add_ok
         THEN [ret |-> TRUE,
               store |-> Append(fragments,
                            Fragment(Len(fragments) + 1, StrOf(kwargs.documentation), "documentation"))]
         ELSE [ret |-> FALSE, store |-> fragments]
    ELSE IF Has(kwargs.question) /\ Has(kwargs.sql)
    THEN IF add_ok
         THEN [ret |-> TRUE,
               store |-> Append(fragments,
                            Fragment(Len(fragments) + 1,
                                "Question: " \o StrOf(kwargs.question)
                                    \o "\nSQL: " \o StrOf(kwargs.sql),
                                "question_sql"))]
         ELSE [ret |-> FALSE, store |-> fragments]
    ELSE [ret |-> TRUE, store |-> fragments]

\* lines 81-127: [ret, store]; add_ok is whether collection.add succeeds
train(collection, fragments, doc_id, kwargs, add_ok) ==
    IF ~collection THEN [ret |-> FALSE, store |-> fragments]
    ELSE IF Has(kwargs.ddl)
    THEN IF add_ok
         THEN [ret |-> TRUE,
               store |-> Append(fragments, Fragment(doc_id, StrOf(kwargs.ddl), "ddl"))]
         ELSE [ret |-> FALSE, store |-> fragments]
    ELSE IF Has(kwargs.documentation)
    THEN IF add_ok
         THEN [ret |-> TRUE,
               store |-> Append(fragments,
                            Fragment(doc_id, StrOf(kwargs.documentation), "documentation"))]
         ELSE [ret |-> FALSE, store |-> fragments]
    ELSE IF Has(kwargs.question) /\ Has(kwargs.sql)
    THEN IF add_ok
         THEN [ret |-> TRUE,
               store |-> Append(fragments,
                            Fragment(doc_id,
                                "Question: " \o StrOf(kwargs.question)
                                    \o "\nSQL: " \o StrOf(kwargs.sql),
                                "question_sql"))]
         ELSE [ret |-> FALSE, store |-> fragments]
    ELSE [ret |-> TRUE, store |-> fragments]

N_RESULTS == 5

\* collection.query(n_results=n): it raises, or ranks min(n, count) distinct
\* fragments in an order the index chooses
QueryOutcomes(fragments, n) ==
    LET k == Min(n, Len(fragments))
        rankings == {r \in [1..k -> 1..Len(fragments)] :
                        \A a, b \in 1..k : a # b => r[a] # r[b]}
    IN  {[kind |-> "raise", hits |-> <<>>]}
        \cup {[kind |-> "hits", hits |-> [i \in 1..k |-> fragments[r[i]]]] : r \in rankings}

---------------------------------------------------------------------------
(* Inputs                                                                  *)

Questions == {"¿Cuántos usuarios hay?", "¿y hombres?", "Y CUÁNTOS hombres"}

COUNT_WOMEN_SQL == "SELECT COUNT(*) FROM users WHERE sexo_id=2"

PriorTurn == Turn(S("¿cuántas mujeres?"), S(COUNT_WOMEN_SQL), S("2977"))
NumericAnswerTurn == Turn(S("¿cuántas mujeres?"), S(COUNT_WOMEN_SQL), I(2977))
FailedTurn == Turn(S("¿y el resto?"), PyNone, Missing)

Histories == {<<>>, <<PriorTurn>>, <<NumericAnswerTurn>>, <<PriorTurn, FailedTurn>>}

\* raw completions of the model for a SQL prompt
SqlCompletions ==
    { "SELECT COUNT(*) FROM users",
      Fence \o "sql\nSELECT nombre FROM users\n" \o Fence,
      "",
      "  \n",
      "DROP TABLE users",
      "delete from users" }

SqlLlmOutcomes == {LlmRaise, LlmMalformed} \cup {LlmText(c) : c \in SqlCompletions}

\* raw completions of the model for a summary prompt
SummaryCompletions == {"Hay 2,977 usuarias registradas.", "", " \n "}

SummaryLlmOutcomes == {LlmRaise, LlmMalformed} \cup {LlmText(c) : c \in SummaryCompletions}

RowShapes == {"dict1", "dict2", "dictEmpty", "dictNone", "tuple0", "tuple1", "tuple2"}

MkRow(shape, i) ==
    CASE shape = "dict1" -> DictRow(<<"total">>, <<I(i)>>)
      [] shape = "dict2" -> DictRow(<<"id", "nombre">>, <<I(i), S("Ana")>>)
      [] shape = "dictEmpty" -> DictRow(<<"nombre">>, <<S("")>>)
      [] shape = "dictNone" -> DictRow(<<"nombre">>, <<PyNone>>)
      [] shape = "tuple0" -> TupleRow(<<>>)
      [] shape = "tuple1" -> TupleRow(<<I(i)>>)
      [] OTHER -> TupleRow(<<I(i), S("Ana")>>)

Rows(shape, n) == [i \in 1..n |-> MkRow(shape, i)]

\* row counts around the summary limit, and the 120 rows of the scenario
RowCounts == (0..2) \cup (49..MaxRows) \cup {120}

RowSets ==
    {Rows(shape, n) : shape \in {"dict1", "tuple1"}, n \in RowCounts}
    \cup {Rows(shape, n) : shape \in RowShapes, n \in 1..2}

\* what a DictCursor returns to the endpoints
DbRowSets == {Rows("dict1", n) : n \in {0, 1, 2, 6}} \cup {Rows("dict2", 1)}

DbOutcomes ==
    {DbConnectError, DbError("(1146, \"Table 'digitalform.users' doesn't exist\")")}
    \cup {DbRows(r) : r \in DbRowSets}

SummarySqls ==
    { COUNT_WOMEN_SQL,
      "select nombre from users",
      "select count(*)\nfrom users" }

TrainKwargs ==
    { Kwargs(S("CREATE TABLE users (id INT, sexo_id INT)"), Missing, Missing, Missing),
      Kwargs(Missing, S("sexo_id 2 = mujer"), Missing, Missing),
      Kwargs(Missing, Missing, S("¿Cuántos usuarios hay?"), S("SELECT COUNT(*) FROM users")),
      Kwargs(Missing, Missing, S("¿Cuántos usuarios hay?"), Missing) }


DirectQueries ==
    { "SELECT * FROM users",
      "select created_at from users",
      "drop table users",
      "Delete FROM users" }

---------------------------------------------------------------------------
(* backend/main.py: execute_query                                          *)

dangerous_keywords == <<"DROP", "DELETE", "UPDATE", "INSERT", "ALTER", "CREATE">>

\* lines 189-191
IsDangerous(query) ==
    LET query_upper == StrUpper(query)
    IN  \E i \in 1..Len(dangerous_keywords) : Contains(query_upper, dangerous_keywords[i])

QueryResponse(success, query, error, rows) ==
    [endpoint |-> "query", success |-> success, answer |-> Missing, sql |-> S(query),
     error |-> error, raw_results |-> rows]

\* lines 184-220: [resp, calls]; the HTTPException of the denylist is raised
\* inside the try block and caught by its last except clause
execute_query(query, db) ==
    IF IsDangerous(query)
    THEN [resp |-> QueryResponse(FALSE, query, S("400: Operación no permitida"), <<>>),
          calls |-> <<>>]
    ELSE IF db.kind = "connect_error"
    THEN [resp |-> QueryResponse(FALSE, query, S(db.error), <<>>),
          calls |-> <<Call("db_connect", "", FALSE, db.error)>>]
    ELSE IF db.kind = "error"
    THEN [resp |-> QueryResponse(FALSE, query,
                       S("Error de base de datos: " \o db.error), <<>>),
          calls |-> <<Call("db_execute", query, FALSE, db.error)>>]
    ELSE [resp |-> QueryResponse(TRUE, query, Missing, db.rows),
          calls |-> <<Call("db_execute", query, TRUE, "")>>]

---------------------------------------------------------------------------
(* Initial states.  The service is constructed; init_chromadb may have     *)
(* failed, which leaves self.collection None.  The endpoints below never   *)
(* write the store, so their specification starts from stores that earlier *)
(* train calls have left.                                                  *)

SampleStores ==
    { <<>>,
      <<Fragment(1, "CREATE TABLE users (id INT, sexo_id INT)", "ddl")>>,
      <<Fragment(1, "sexo_id 2 = mujer", "documentation"),
        Fragment(2, "Question: ¿Cuántos usuarios hay?\nSQL: SELECT COUNT(*) FROM users",
                 "question_sql")>> }

\* DatabaseConnectionPool.__init__ (lines 31-32) and the locals of a
\* get_db_connection that is not running
\* connection is 0 for None and else the number of the pymysql connection
\* the pool keeps; created counts the connections made so far
ClosedPool ==
    [connection |-> 0, created |-> 0, pinged |-> FALSE, pc |-> "idle", attempt |-> 0,
     retry_delay |-> 0, slept |-> <<>>, attempts |-> <<>>, result |-> "none",
     returned |-> 0]

\* VannaTrainer.__init__ (lines 26-34), before run()
NewTrainer ==
    [pc |-> "new", connected |-> TRUE,
     stats |-> [tables_trained |-> 0, docs_trained |-> 0, queries_trained |-> 0,
                errors |-> 0],
     table_names |-> <<>>, todo |-> <<>>, processed |-> <<>>, reported |-> FALSE]

IdleHandler ==
    /\ pool = ClosedPool
    /\ chat_history = <<>>
    /\ trainer = NewTrainer
    /\ pc = "idle"
    /\ req = NoRequest
    /\ sql = PyNone
    /\ results = <<>>
    /\ resp = NoResponse
    /\ escaped = FALSE
    /\ calls = <<>>

StoreStates ==
    /\ collectionOk \in BOOLEAN
    /\ store \in (IF collectionOk THEN SampleStores ELSE {<<>>})
    /\ nextId = Len(store) + 1

Init ==
    /\ StoreStates
    /\ IdleHandler
    /\ out = NoOut

\* an exception raised by a statement of the handler itself (MemoryError
\* and the like), with the text str(e) gives
NoFault == [raised |-> FALSE, error |-> ""]
Fault(e) == [raised |-> TRUE, error |-> e]
Faults == {NoFault, Fault("")}

\* the outer try/except of chat_with_vanna, lines 226 and 290-298
ChatCatch(r) ==
    IF r.raised
    THEN [raised |-> FALSE, error |-> "", resp |-> ChatUnexpectedResponse(r.error)]
    ELSE r

\* Mutation of ChatGenerateStep: `if sql is None` instead of `if not sql`
ChatGenerateStep_none_only(g) ==
    IF g.raised THEN [raised |-> TRUE, error |-> "generate_sql", resp |-> NoResponse]
    ELSE IF g.ret.t = "none"
    THEN [raised |-> FALSE, error |-> "", resp |-> ChatRephraseResponse]
    ELSE [raised |-> FALSE, error |-> "", resp |-> NoResponse]

\* lines 228-238: [raised, error, resp]; resp is NoResponse when the handler goes on
ChatGenerateStep(g) ==
    IF g.raised THEN [raised |-> TRUE, error |-> "generate_sql", resp |-> NoResponse]
    ELSE IF Falsy(g.ret) THEN [raised |-> FALSE, error |-> "", resp |-> ChatRephraseResponse]
    ELSE [raised |-> FALSE, error |-> "", resp |-> NoResponse]

\* lines 258-288
ChatSummarizeStep(sql_text, rows, s, fault) ==
    IF s.raised THEN [raised |-> TRUE, error |-> "generate_summary", resp |-> NoResponse]
    ELSE IF fault.raised THEN [raised |-> TRUE, error |-> fault.error, resp |-> NoResponse]
    ELSE [raised |-> FALSE, error |-> "", resp |-> ChatSuccessResponse(sql_text, rows, s.ret)]

\* chat_with_vanna, lines 226-238: generate_sql and the test of its result
ChatGenerateSql ==
    /\ pc = "idle"
    /\ \E query \in Questions, history \in Histories,
          qres \in QueryOutcomes(store, N_RESULTS), llm \in SqlLlmOutcomes :
          LET g == generate_sql(query, history,
                                get_relevant_context(collectionOk, qres), llm)
              r == ChatCatch(ChatGenerateStep(g))
          IN  /\ req' = [query |-> query, history |-> history]
              /\ calls' = <<SqlCall(g)>> \o LlmCalls(g, llm)
              /\ sql' = g.ret
              /\ resp' = r.resp
              /\ escaped' = r.raised
              /\ pc' = IF r.raised \/ r.resp.endpoint # "none" THEN "responded" ELSE "generated"
    /\ out' = NoOut
    /\ results' = <<>>
    /\ UNCHANGED <<pool, chat_history, trainer, collectionOk, store, nextId>>

\* chat_with_vanna, lines 240-256: the SQL is executed on the database
ChatExecute ==
    /\ pc = "generated"
    /\ \E db \in DbOutcomes :
          /\ calls' = Append(calls,
                          IF db.kind = "connect_error"
                          THEN Call("db_connect", "", FALSE, db.error)
                          ELSE Call("db_execute", sql.s, db.kind = "rows", db.error))
          /\ IF db.kind = "rows"
             THEN /\ results' = db.rows
                  /\ resp' = NoResponse
                  /\ pc' = "executed"
             ELSE /\ results' = <<>>
                  /\ resp' = ChatExecutionFailedResponse(sql.s, db.error)
                  /\ pc' = "responded"
    /\ UNCHANGED <<pool, chat_history, trainer, collectionOk, store, nextId, req, sql, escaped, out>>

\* Mutation of ChatSummarize: the summary is asked for before the execution
ChatSummarize_before_execution ==
    /\ pc = "generated"
    /\ \E llm \in SummaryLlmOutcomes :
          LET s == generate_summary(req.query, sql.s, results, req.history, llm)
          IN  /\ calls' = Append(calls, Call("generate_summary", sql.s, ~s.raised, ""))
                              \o LlmCalls(s, llm)
              /\ resp' = ChatSuccessResponse(sql.s, results, s.ret)
    /\ pc' = "responded"
    /\ escaped' = FALSE
    /\ UNCHANGED <<pool, chat_history, trainer, collectionOk, store, nextId, req, sql, results, out>>

\* chat_with_vanna, lines 258-298: generate_summary and the response
ChatSummarize ==
    /\ pc = "executed"
    /\ \E llm \in SummaryLlmOutcomes, fault \in Faults :
          LET s == generate_summary(req.query, sql.s, results, req.history, llm)
              r == ChatCatch(ChatSummarizeStep(sql.s, results, s, fault))
          IN  /\ calls' = Append(calls, Call("generate_summary", sql.s, ~s.raised, ""))
                              \o LlmCalls(s, llm)
              /\ resp' = r.resp
              /\ escaped' = r.raised
    /\ pc' = "responded"
    /\ UNCHANGED <<pool, chat_history, trainer, collectionOk, store, nextId, req, sql, results, out>>

\* the response has been sent; the handler's locals are gone
Return ==
    /\ pc = "responded"
    /\ pc' = "idle"
    /\ req' = NoRequest
    /\ sql' = PyNone
    /\ results' = <<>>
    /\ resp' = NoResponse
    /\ calls' = <<>>
    /\ escaped' = FALSE
    /\ out' = NoOut
    /\ UNCHANGED <<pool, chat_history, trainer, collectionOk, store, nextId>>

\* POST /mysql/query
ExecuteQuery ==
    /\ pc = "idle"
    /\ \E query \in DirectQueries, db \in DbOutcomes :
          LET r == execute_query(query, db)
          IN  /\ resp' = r.resp
              /\ calls' = r.calls
    /\ pc' = "responded"
    /\ out' = NoOut
    /\ escaped' = FALSE
    /\ UNCHANGED <<pool, chat_history, trainer, collectionOk, store, nextId, req, sql, results>>

\* LocalVannaService.ask, lines 494-514: [resp, calls]
ask(g, llm, db) ==
    LET gen == <<SqlCall(g)>> \o LlmCalls(g, llm)
        failed(e) == [endpoint |-> "ask", success |-> FALSE, answer |-> Missing,
                      sql |-> Missing, error |-> S(e), raw_results |-> <<>>]
    IN  IF g.raised THEN [resp |-> failed("generate_sql"), calls |-> gen]
        ELSE IF Falsy(g.ret) THEN [resp |-> failed("No se pudo generar SQL"), calls |-> gen]
        ELSE IF db.kind = "connect_error"
        THEN [resp |-> failed("Error ejecutando SQL"),
              calls |-> Append(gen, Call("db_connect", "", FALSE, db.error))]
        ELSE IF db.kind = "error"
        THEN [resp |-> failed("Error ejecutando SQL"),
              calls |-> Append(gen, Call("db_execute", g.ret.s, FALSE, db.error))]
        ELSE [resp |-> [endpoint |-> "ask", success |-> TRUE, answer |-> Missing,
                        sql |-> g.ret, error |-> Missing, raw_results |-> db.rows],
              calls |-> Append(gen, Call("db_execute", g.ret.s, TRUE, ""))]

\* a caller runs LocalVannaService.ask(question)
Ask ==
    /\ pc = "idle"
    /\ \E question \in Questions, qres \in QueryOutcomes(store, N_RESULTS),
          llm \in SqlLlmOutcomes, db \in DbOutcomes :
          LET g == generate_sql(question, <<>>,
                                get_relevant_context(collectionOk, qres), llm)
              r == ask(g, llm, db)
          IN  /\ resp' = r.resp
              /\ calls' = r.calls
    /\ pc' = "responded"
    /\ out' = NoOut
    /\ escaped' = FALSE
    /\ UNCHANGED <<pool, chat_history, trainer, collectionOk, store, nextId, req, sql, results>>

\* a caller runs LocalVannaService.train(**kwargs)
Train ==
    /\ pc = "idle"
    /\ nextId <= MaxStore
    /\ \E kwargs \in TrainKwargs, add_ok \in BOOLEAN :
          LET r == train(collectionOk, store, nextId, kwargs, add_ok)
          IN  /\ store' = r.store
              /\ nextId' = IF collectionOk THEN nextId + 1 ELSE nextId
              /\ out' = [NoOut EXCEPT !.fn = "train", !.ret = B(r.ret), !.done = TRUE,
                                       !.arg = nextId, !.before = store]
    /\ pc' = "responded"
    /\ calls' = <<>>
    /\ resp' = NoResponse
    /\ escaped' = FALSE
    /\ UNCHANGED <<pool, chat_history, trainer, collectionOk, req, sql, results>>

Next ==
    \/ ChatGenerateSql
    \/ ChatExecute
    \/ ChatSummarize
    \/ ExecuteQuery
    \/ Ask
    \/ Return

\* the endpoints of the API and LocalVannaService.ask
Spec == Init /\ [][Next]_vars

\* Mutation of remove_training: the fragments up to the one named are deleted
remove_training_through(collection, fragments, training_id, delete_ok) ==
    IF ~collection \/ ~delete_ok THEN [ret |-> FALSE, store |-> fragments]
    ELSE [ret |-> TRUE,
          store |-> SelectSeq(fragments, LAMBDA f : f.id > training_id)]

\* lines 426-435: [ret, store]; delete_ok is whether collection.delete
\* succeeds, and it deletes the fragments that have the id
remove_training(collection, fragments, training_id, delete_ok) ==
    IF ~collection \/ ~delete_ok THEN [ret |-> FALSE, store |-> fragments]
    ELSE [ret |-> TRUE,
          store |-> SelectSeq(fragments, LAMBDA f : f.id # training_id)]

\* lines 372-395: the "total" of the dict returned; count_ok is whether
\* collection.count succeeds
get_training_data(collection, fragments, count_ok) ==
    IF ~collection THEN 0
    ELSE IF count_ok THEN Len(fragments)
    ELSE 0

\* lines 397-424: [raised, ret]; nothing catches what count and get raise
get_all_training_data(collection, fragments, count_ok, get_ok) ==
    IF ~collection THEN [raised |-> FALSE, ret |-> <<>>]
    ELSE IF ~count_ok THEN [raised |-> TRUE, ret |-> <<>>]
    ELSE IF Len(fragments) = 0 THEN [raised |-> FALSE, ret |-> <<>>]
    ELSE IF ~get_ok THEN [raised |-> TRUE, ret |-> <<>>]
    ELSE [raised |-> FALSE,
          ret |-> [i \in 1..Len(fragments) |->
                     [id |-> fragments[i].id,
                      document |-> fragments[i].document,
                      metadata |-> fragments[i].type]]]

\* the ids a caller may name: those handed out so far, and one never used
TrainingIds == 1..(MaxStore + 1)

\* the n_results a caller passes; generate_sql passes the default
ContextSizes == {1, 2, N_RESULTS}

StoreCallDone(o) ==
    /\ out' = o
    /\ pc' = "responded"
    /\ calls' = <<>>
    /\ resp' = NoResponse
    /\ UNCHANGED <<pool, chat_history, trainer, collectionOk, req, sql, results>>

\* a caller runs LocalVannaService.remove_training(training_id)
RemoveTraining ==
    /\ pc = "idle"
    /\ \E training_id \in TrainingIds, delete_ok \in BOOLEAN :
          LET r == remove_training(collectionOk, store, training_id, delete_ok)
          IN  /\ store' = r.store
              /\ StoreCallDone([NoOut EXCEPT !.fn = "remove_training", !.ret = B(r.ret),
                                             !.done = TRUE, !.arg = training_id,
                                             !.before = store])
    /\ escaped' = FALSE
    /\ UNCHANGED nextId

\* a caller runs LocalVannaService.get_relevant_context(question, n_results)
GetRelevantContext ==
    /\ pc = "idle"
    /\ \E n \in ContextSizes : \E qres \in QueryOutcomes(store, n) :
          StoreCallDone([NoOut EXCEPT !.fn = "get_relevant_context",
                                      !.ret = S(get_relevant_context(collectionOk, qres)),
                                      !.done = TRUE, !.arg = n, !.before = store,
                                      !.retrieved = collectionOk /\ qres.kind # "raise",
                                      !.hits = IF collectionOk THEN qres.hits ELSE <<>>])
    /\ escaped' = FALSE
    /\ UNCHANGED <<pool, chat_history, trainer, store, nextId>>

\* a caller runs LocalVannaService.get_training_data()
GetTrainingData ==
    /\ pc = "idle"
    /\ \E count_ok \in BOOLEAN :
          StoreCallDone([NoOut EXCEPT !.fn = "get_training_data",
                                      !.ret = I(get_training_data(collectionOk, store, count_ok)),
                                      !.done = TRUE, !.before = store,
                                      !.retrieved = collectionOk /\ count_ok])
    /\ escaped' = FALSE
    /\ UNCHANGED <<pool, chat_history, trainer, store, nextId>>

\* a caller runs LocalVannaService.get_all_training_data()
GetAllTrainingData ==
    /\ pc = "idle"
    /\ \E count_ok \in BOOLEAN, get_ok \in BOOLEAN :
          LET r == get_all_training_data(collectionOk, store, count_ok, get_ok)
          IN  /\ StoreCallDone([NoOut EXCEPT !.fn = "get_all_training_data",
                                             !.raised = r.raised, !.listed = r.ret,
                                             !.done = TRUE, !.before = store,
                                             !.retrieved = collectionOk /\ count_ok /\ get_ok])
              /\ escaped' = r.raised
    /\ UNCHANGED <<pool, chat_history, trainer, store, nextId>>

StoreInit ==
    /\ collectionOk \in BOOLEAN
    /\ store = <<>>
    /\ nextId = 1
    /\ IdleHandler
    /\ out = NoOut

StoreNext ==
    \/ Train
    \/ RemoveTraining
    \/ GetRelevantContext
    \/ GetTrainingData
    \/ GetAllTrainingData
    \/ Return

\* the knowledge store under the operations of LocalVannaService on it
StoreSpec == StoreInit /\ [][StoreNext]_vars

---------------------------------------------------------------------------
(* generate_sql as a function of its inputs: the initial states draw the   *)
(* question, the history, the state of the store and what the index and    *)
(* the model do; the one action applies the function.                      *)

\* retrieved: collection.query was reached and returned
PendingCall(fn, question, sql_text, rows, history, retrieved, context, llm) ==
    [fn |-> fn, question |-> question, sql |-> sql_text, rows |-> rows,
     history |-> history, retrieved |-> retrieved, context |-> context,
     llm |-> llm, done |-> FALSE,
     raised |-> FALSE, ret |-> Missing, prompts |-> <<>>,
     arg |-> 0, before |-> <<>>, hits |-> <<>>, listed |-> <<>>]

SqlInit ==
    /\ StoreStates
    /\ IdleHandler
    /\ \E question \in Questions, history \in Histories,
          qres \in QueryOutcomes(store, N_RESULTS), llm \in SqlLlmOutcomes :
          out = PendingCall("generate_sql", question, "", <<>>, history,
                            collectionOk /\ qres.kind # "raise",
                            get_relevant_context(collectionOk, qres), llm)

\* LocalVannaService.generate_sql(question, conversation_history)
CallGenerateSql ==
    /\ out.fn = "generate_sql" /\ ~out.done
    /\ LET g == generate_sql(out.question, out.history, out.context, out.llm)
       IN  /\ out' = [out EXCEPT !.done = TRUE, !.raised = g.raised, !.ret = g.ret,
                                 !.prompts = g.prompts]
           /\ calls' = LlmCalls(g, out.llm)
           /\ escaped' = g.raised
    /\ UNCHANGED <<pool, chat_history, trainer, collectionOk, store, nextId, pc, req, sql, results, resp>>

SqlNext == CallGenerateSql

SqlSpec == SqlInit /\ [][SqlNext]_vars

---------------------------------------------------------------------------
(* generate_summary as a function of its inputs                            *)

SummaryInit ==
    /\ collectionOk = TRUE
    /\ store = <<>>
    /\ nextId = 1
    /\ IdleHandler
    /\ \E question \in Questions, sql_text \in SummarySqls, rows \in RowSets,
          history \in Histories, llm \in SummaryLlmOutcomes :
          out = PendingCall("generate_summary", question, sql_text, rows, history, FALSE, "", llm)

\* LocalVannaService.generate_summary(question, sql, results, conversation_history)
CallGenerateSummary ==
    /\ out.fn = "generate_summary" /\ ~out.done
    /\ LET s == generate_summary(out.question, out.sql, out.rows, out.history, out.llm)
       IN  /\ out' = [out EXCEPT !.done = TRUE, !.raised = s.raised, !.ret = s.ret,
                                 !.prompts = s.prompts]
           /\ calls' = LlmCalls(s, out.llm)
           /\ escaped' = s.raised
    /\ UNCHANGED <<pool, chat_history, trainer, collectionOk, store, nextId, pc, req, sql, results, resp>>

SummaryNext == CallGenerateSummary

SummarySpec == SummaryInit /\ [][SummaryNext]_vars

---------------------------------------------------------------------------
(* is_contextual_question as a function of the question: the initial      *)
(* states draw questions that carry a marker, as configured or in upper    *)
(* case, alone or inside a sentence, and questions that carry none.        *)

MarkerFreeQuestions ==
    {"", "¿Cuántos usuarios hay?", "¿y hombres?", "¿Cuántas mujeres hay registradas?",
     "Lista de usuarios por fecha"}

MarkerCarriers == {<<"", "">>, <<"¿", " hombres?">>}

DetectorInit ==
    /\ collectionOk = TRUE
    /\ store = <<>>
    /\ nextId = 1
    /\ IdleHandler
    /\ \/ \E q \in MarkerFreeQuestions :
             out = [NoOut EXCEPT !.fn = "is_contextual_question", !.question = q]
       \/ \E m \in 1..Len(contextual_patterns), upper \in BOOLEAN, c \in MarkerCarriers :
             out = [NoOut EXCEPT !.fn = "is_contextual_question",
                                 !.question = c[1] \o (IF upper
                                                       THEN StrUpper(contextual_patterns[m])
                                                       ELSE contextual_patterns[m])
                                              \o c[2],
                                 !.arg = m]

\* LocalVannaService.is_contextual_question(question)
CallIsContextualQuestion ==
    /\ out.fn = "is_contextual_question" /\ ~out.done
    /\ out' = [out EXCEPT !.done = TRUE, !.ret = B(is_contextual_question(out.question))]
    /\ UNCHANGED <<pool, chat_history, trainer, collectionOk, store, nextId, pc, req, sql, results, resp, escaped, calls>>

DetectorNext == CallIsContextualQuestion

DetectorSpec == DetectorInit /\ [][DetectorNext]_vars

---------------------------------------------------------------------------
(* The conversation window of generate_sql and generate_summary: the       *)
(* initial states draw histories shorter and longer than the windows,      *)
(* whose answers are shorter and longer than the budgets.                  *)

TenDigits == "0123456789"

\* the first n characters of 0123456789 repeated
RECURSIVE Digits(_)
Digits(n) ==
    IF n <= 10 THEN SubSeq(TenDigits, 1, n)
    ELSE LET half == Digits((n + 1) \div 2) IN SubSeq(half \o half, 1, n)

\* the lengths of the answers: empty, short, and around both budgets
AnswerLengths ==
    {0, 4, SUMMARY_ANSWER_BUDGET, SUMMARY_ANSWER_BUDGET + 1,
     SQL_ANSWER_BUDGET, SQL_ANSWER_BUDGET + 1, SQL_ANSWER_BUDGET + 50}

NumberedTurn(i, len) ==
    Turn(S("pregunta " \o ToString(i)), S("SELECT " \o ToString(i)),
         S(SubSeq(ToString(i) \o ":" \o Digits(len), 1, len)))

WindowHistories ==
    {[i \in 1..n |-> NumberedTurn(i, len)] : n \in 0..MaxHistory, len \in AnswerLengths}

WindowInit ==
    /\ collectionOk = TRUE
    /\ store = <<>>
    /\ nextId = 1
    /\ IdleHandler
    /\ \E question \in Questions, history \in WindowHistories :
          \/ out = PendingCall("generate_sql", question, "", <<>>, history, TRUE, "",
                               LlmText("SELECT COUNT(*) FROM users"))
          \/ out = PendingCall("generate_summary", question, COUNT_WOMEN_SQL,
                               Rows("dict1", 1), history, FALSE, "",
                               LlmText("Hay 2,977 usuarias registradas."))

WindowNext == CallGenerateSql \/ CallGenerateSummary

WindowSpec == WindowInit /\ [][WindowNext]_vars

---------------------------------------------------------------------------
(* Properties of the chat pipeline and of the query endpoint (Spec)        *)

InChat == req # NoRequest
InAsk == resp.endpoint = "ask"

IsStep(c) == c.op \in {"generate_sql", "db_execute", "generate_summary"}

\* the pipeline steps the running operation has taken, in order
Steps == SelectSeq(calls, IsStep)

HasCall(ops) == \E i \in 1..Len(calls) : calls[i].op \in ops

\* C2: within one chat request (and within ask) the steps are taken in the
\* order generate_sql, execute, summarize: a statement is executed only as
\* the second step, after generate_sql returned that very statement and it
\* is non-empty; generate_summary is invoked only as the third step, after
\* the execution of that very statement succeeded; no step is taken twice,
\* and a successful chat response has taken all three.
C2_StepsInStrictOrder ==
    (InChat \/ InAsk) =>
        LET st == Steps
        IN  /\ Len(st) <= 3
            /\ InChat => (st # <<>> /\ st[1].op = "generate_sql")
            /\ \A i \in 1..Len(st) :
                  /\ (st[i].op = "generate_sql") => (i = 1)
                  /\ (st[i].op = "db_execute") =>
                        /\ i = 2
                        /\ st[1].op = "generate_sql" /\ st[1].ok
                        /\ st[1].text # "" /\ st[i].text = st[1].text
                  /\ (st[i].op = "generate_summary") =>
                        /\ i = 3
                        /\ st[2].op = "db_execute" /\ st[2].ok
                        /\ st[i].text = st[2].text
            /\ (InChat /\ pc = "generated") => Len(st) = 1
            /\ (InChat /\ pc = "executed") => Len(st) = 2
            /\ (InChat /\ pc = "responded" /\ resp.success) => Len(st) = 3

C2_Witness ==
    /\ InChat /\ pc = "responded" /\ resp.success
    /\ Len(Steps) = 3 /\ Steps[3].op = "generate_summary"

\* generate_sql gave the chat handler nothing to run: the model call
\* failed, or the SQL returned is None or empty
GenerationFailed ==
    /\ InChat
    /\ calls # <<>>
    /\ calls[1].op = "generate_sql"
    /\ \/ ~calls[1].ok
       \/ calls[1].text = ""
       \/ (Len(calls) >= 2 /\ calls[2].op = "llm" /\ ~calls[2].ok)

\* C3: when SQL generation fails for a chat request, the response is
\* success=false with sql=null and the request to rephrase, and neither the
\* database nor the summarizer has been called.
C3_GenerationFailureAsksToRephrase ==
    GenerationFailed =>
        /\ pc = "responded"
        /\ resp.endpoint = "chat"
        /\ ~resp.success
        /\ resp.sql = PyNone
        /\ resp.answer
             = S("No pude generar una consulta SQL para tu pregunta. ¿Podrías reformularla?")
        /\ ~HasCall({"db_connect", "db_execute", "generate_summary"})

C3_Witness ==
    /\ GenerationFailed
    /\ Len(calls) = 2 /\ calls[2].op = "llm" /\ ~calls[2].ok
    /\ resp.endpoint = "chat"

\* C4: when executing the generated SQL raises, the response is
\* success=false, its answer says that the SQL was generated but its
\* execution failed and ends with the error text, it returns the generated
\* SQL, and the summarizer has not been called.
C4_ExecutionFailureIsReported ==
    \A i \in 1..Len(calls) :
        (InChat /\ calls[i].op \in {"db_connect", "db_execute"} /\ ~calls[i].ok) =>
            /\ pc = "responded"
            /\ resp.endpoint = "chat"
            /\ ~resp.success
            /\ resp.answer
                 = S("Generé la consulta SQL pero hubo un error al ejecutarla: "
                     \o calls[i].detail)
            /\ calls[i].detail # ""
            /\ resp.error = S(calls[i].detail)
            /\ calls[1].text # ""
            /\ resp.sql = S(calls[1].text)
            /\ ~HasCall({"generate_summary"})

C4_Witness ==
    /\ InChat /\ pc = "responded"
    /\ Len(calls) = 3 /\ calls[3].op = "db_execute" /\ ~calls[3].ok
    /\ resp.sql = S("SELECT COUNT(*) FROM users")

\* C5: every response of the chat endpoint carries an answer that is a
\* non-blank string, a finished chat request always has a response, and no
\* exception leaves the handler.
C5_ChatAlwaysAnswers ==
    /\ (InChat /\ pc = "responded") => resp.endpoint = "chat"
    /\ InChat => ~escaped
    /\ (resp.endpoint = "chat") =>
          /\ resp.answer.t = "str"
          /\ Strip(resp.answer.s) # ""

\* the summarizer returned an empty string for existing rows and the
\* endpoint answered with its own sentence
C5_Witness ==
    /\ InChat /\ pc = "responded" /\ resp.success
    /\ Len(results) = 6
    /\ calls[Len(calls)].op = "llm" /\ calls[Len(calls)].ok
    /\ Contains(resp.answer.s, "Te muestro los primeros 5:")

DenylistKeywords == {"DROP", "DELETE", "UPDATE", "INSERT", "ALTER", "CREATE"}

Destructive(statement) ==
    \E k \in DenylistKeywords : Contains(StrUpper(statement), k)

\* C6: no statement containing a keyword of the denylist, in any letter
\* case, is executed on the database by the API layer, whether it comes
\* from the direct query endpoint or from the model through the chat
\* endpoint.
C6_NoDestructiveStatementExecuted ==
    (InChat \/ resp.endpoint = "query") =>
        \A i \in 1..Len(calls) :
            (calls[i].op = "db_execute") => ~Destructive(calls[i].text)

---------------------------------------------------------------------------
(* Properties of generate_sql (SqlSpec)                                    *)

SqlDone == out.fn = "generate_sql" /\ out.done

\* a step of generate_sql's try block raises: the model call fails or its
\* response has no usable content, or an interaction of the rendered window
\* has an answer that is not a string
SqlStepFails ==
    \/ out.llm.kind # "text"
    \/ LET window == LastK(out.history,
                           IF is_contextual_question(out.question) THEN 7 ELSE 5)
       IN  \E i \in 1..Len(window) :
               window[i].answer.t \notin {"str", "none", "missing"}
               /\ Truthy(window[i].answer)

\* the vector index is missing or its query raises
RetrievalFails == ~out.retrieved

\* C1: generate_sql returns a SQL string or None and never raises.  When
\* the rendering of the conversation, the model call or the read of its
\* output fails it returns None.  A failure of the retrieval is absorbed by
\* get_relevant_context: the prompt is sent with an empty database context
\* and, no other step failing, the cleaned completion is returned.
C1_GenerateSqlReturnsSqlOrNone ==
    SqlDone =>
        /\ ~out.raised
        /\ ~escaped
        /\ out.ret.t \in {"str", "none"}
        /\ Len(calls) <= 1
        /\ SqlStepFails => out.ret = PyNone
        /\ (RetrievalFails /\ ~SqlStepFails) =>
              /\ out.ret = S(CleanSql(out.llm.text))
              /\ Len(out.prompts) = 1
              /\ out.context = ""
              /\ out.prompts[1].user
                   = SqlUserPrompt("", SqlConversationContext(out.history,
                                           is_contextual_question(out.question)).text,
                                   out.question)

C1_Witness ==
    /\ SqlDone
    /\ RetrievalFails
    /\ collectionOk /\ store # <<>>
    /\ out.llm = LlmText("SELECT COUNT(*) FROM users")
    /\ out.history # <<>>
    /\ out.ret = S("SELECT COUNT(*) FROM users")

\* C1 as stated: a failure of the context retrieval, like a failure of any
\* other step, makes generate_sql return None
C1_RetrievalFailureGivesNone ==
    SqlDone =>
        /\ ~out.raised
        /\ out.ret.t \in {"str", "none"}
        /\ (SqlStepFails \/ RetrievalFails) => out.ret = PyNone

\* the vector index is missing, holds nothing, or its query raised
NothingRetrieved == ~collectionOk \/ store = <<>> \/ ~out.retrieved

StartsWith(s, prefix) == SubSeq(s, 1, Len(prefix)) = prefix

\* C17: when the vector index is uninitialized or empty or its query
\* raises, get_relevant_context gives the empty string, and generate_sql,
\* unless the rendering of the history fails, sends its one prompt with an
\* empty database context to the model and returns what the model call
\* gives.
C17_RetrievalFailureDoesNotAbort ==
    (SqlDone /\ NothingRetrieved) =>
        /\ out.context = ""
        /\ ~out.raised /\ ~escaped
        /\ (\A i \in 1..Len(out.history) : out.history[i].answer.t # "int") =>
              /\ Len(out.prompts) = 1
              /\ StartsWith(out.prompts[1].user, "DATABASE CONTEXT:\n\n")
              /\ Contains(out.prompts[1].user,
                          "CURRENT USER QUESTION:\n" \o out.question \o "\n")
              /\ Len(calls) = 1 /\ calls[1].op = "llm"
              /\ (out.llm.kind = "text") => out.ret.t = "str"

\* the query of a non-empty index raised and the model was still asked
C17_Witness ==
    /\ SqlDone
    /\ collectionOk /\ Len(store) = 2 /\ ~out.retrieved
    /\ Len(out.prompts) = 1
    /\ Len(calls) = 1 /\ calls[1].ok
    /\ out.ret = S("SELECT nombre FROM users")

\* C14: for "¿y hombres?" asked after the one prior turn ("¿cuántas
\* mujeres?", its SQL, "2977") the detector answers true, so the system
\* prompt that generate_sql sends carries the contextual instruction.
C14_FollowUpIsContextual ==
    (SqlDone /\ out.question = "¿y hombres?" /\ out.history = <<PriorTurn>>) =>
        /\ is_contextual_question(out.question)
        /\ \A p \in 1..Len(out.prompts) : out.prompts[p].system.contextual_note

---------------------------------------------------------------------------
(* Properties of generate_summary (SummarySpec)                            *)

SummaryDone == out.fn = "generate_summary" /\ out.done

\* C7: with an empty rows collection generate_summary returns the fixed
\* "no results" sentence and sends nothing to the model, whatever the
\* question, the SQL, the history and the state of the model.
C7_EmptyRowsShortCircuit ==
    (SummaryDone /\ out.rows = <<>>) =>
        /\ out.ret
             = S("No se encontraron resultados para tu consulta. Parece que no hay datos que coincidan con lo que buscas.")
        /\ out.prompts = <<>>
        /\ calls = <<>>
        /\ ~out.raised

C7_Witness ==
    /\ SummaryDone /\ out.rows = <<>>
    /\ out.llm.kind = "raise" /\ out.history # <<>>
    /\ out.ret.t = "str"

\* the model call failed, or a step before it did (nothing was sent)
SummaryFailed ==
    /\ SummaryDone
    /\ out.rows # <<>>
    /\ (out.llm.kind # "text" \/ out.prompts = <<>>)

\* C8: when the model call or a step before it fails and rows is not empty,
\* generate_summary does not raise and returns a non-blank string; at most
\* the one failed model call was made; and the string is the same for every
\* question, history and kind of failure, that is, it is computed from rows
\* and sql alone.
C8_FallbackNeedsNoModel ==
    SummaryFailed =>
        /\ ~out.raised /\ ~escaped
        /\ out.ret.t = "str"
        /\ Strip(out.ret.s) # ""
        /\ Len(calls) <= 1
        /\ \A i \in 1..Len(calls) : ~calls[i].ok
        /\ \A q \in Questions :
              generate_summary(q, out.sql, out.rows, out.history, out.llm).ret = out.ret
        /\ \A h \in Histories, l \in {LlmRaise, LlmMalformed} :
              generate_summary(out.question, out.sql, out.rows, h, l).ret = out.ret

C8_Witness ==
    /\ SummaryFailed
    /\ Len(out.rows) = 2 /\ out.rows[1].kind = "tuple" /\ Len(out.rows[1].vals) = 2
    /\ out.llm.kind = "raise"
    /\ out.ret = S("Se encontraron 2 resultados para tu consulta.")

HasCountAggregate(sql_text) == Contains(StrLower(sql_text), "count(")

\* C9: on a failed model call, one row that is a single-field mapping gives
\* a sentence that contains the field's value; one positional row with a
\* single value and SQL with a count aggregate gives the count sentence
\* with that value.
C9_SingleValueFallback ==
    (SummaryFailed /\ Len(out.rows) = 1 /\ Len(out.rows[1].vals) = 1) =>
        LET value == StrOf(out.rows[1].vals[1])
        IN  /\ (out.rows[1].kind = "dict") =>
                  /\ out.ret = S("Encontré que el resultado es: " \o value)
                  /\ Contains(out.ret.s, value)
            /\ (out.rows[1].kind = "tuple" /\ HasCountAggregate(out.sql)) =>
                  /\ out.ret = S("Según los datos, hay " \o value
                                 \o " registros que cumplen con tu consulta.")
                  /\ Contains(out.ret.s, value)

C9_Witness ==
    /\ SummaryFailed
    /\ out.rows = <<TupleRow(<<I(1)>>)>>
    /\ out.sql = "SELECT COUNT(*) FROM users WHERE sexo_id=2"
    /\ out.ret = S("Según los datos, hay 1 registros que cumplen con tu consulta.")

\* the number of places of s that hold the character c
CountChar(s, c) == Cardinality({i \in 1..Len(s) : Ch(s, i) = c})

\* the i-th row as the prompt shows it: a mapping as it is, a positional
\* row under the label "count" or "resultado"
ShownRow(sql_text, row) ==
    IF row.kind = "dict" THEN row
    ELSE IF SelectMatch(sql_text) /\ Contains(StrUpper(sql_text), "COUNT")
    THEN DictRow(<<"count">>, <<row.vals[1]>>)
    ELSE DictRow(<<"resultado">>,
                 <<IF Len(row.vals) = 1 THEN row.vals[1] ELSE T(row.vals)>>)

\* nothing but the number of rows can keep the prompt from being built
SummaryInputsRenderable ==
    /\ \A i \in 1..Len(out.rows) : out.rows[i].kind = "dict" \/ Len(out.rows[i].vals) >= 1
    /\ \A i \in 1..Len(out.history) : out.history[i].answer.t # "int"

\* C10: for non-empty rows the prompt shows the first 50 rows at most, in
\* their order; it carries the note with the true row count and the 50
\* shown exactly when there are more than 50 rows; and the number of rows
\* never keeps the prompt from being sent.
C10_PromptShowsFirstFiftyRows ==
    (SummaryDone /\ out.rows # <<>>) =>
        LET n == Len(out.rows)
            shown == IF n > 50 THEN 50 ELSE n
        IN  /\ SummaryInputsRenderable => Len(out.prompts) = 1
            /\ \A p \in 1..Len(out.prompts) :
                  /\ out.prompts[p].results_str
                       = ReprList([i \in 1..shown |-> ShownRow(out.sql, out.rows[i])])
                  /\ CountChar(out.prompts[p].results_str, "{") = shown
                  /\ (out.prompts[p].note # "") <=> (n > 50)
                  /\ (n > 50) =>
                        /\ Contains(out.prompts[p].note, ToString(n) \o " resultados en total")
                        /\ Contains(out.prompts[p].note, "solo los primeros 50.")

C10_Witness ==
    /\ SummaryDone
    /\ Len(out.rows) = 120
    /\ Len(out.prompts) = 1
    /\ Contains(out.prompts[1].note, "120 resultados en total")
    /\ CountChar(out.prompts[1].results_str, "{") = 50
    /\ out.llm.kind = "text" /\ out.ret = S("Hay 2,977 usuarias registradas.")

---------------------------------------------------------------------------
(* Properties of the knowledge store (StoreSpec)                           *)

StoreOpDone(fn) == out.fn = fn /\ out.done

KindLabel(type) ==
    CASE type = "ddl" -> "Table Schema:"
      [] type = "documentation" -> "Documentation:"
      [] type = "question_sql" -> "Example:"
      [] OTHER -> "?"

\* the block the context must show for a hit
LabelledBlock(hit) == KindLabel(hit.type) \o "\n" \o hit.document

\* where the i-th block starts when blocks are separated by a blank line
RECURSIVE BlockOffset(_, _)
BlockOffset(hits, i) ==
    IF i = 1 THEN 0
    ELSE BlockOffset(hits, i - 1) + Len(LabelledBlock(hits[i - 1])) + 2

\* C16: get_relevant_context returns one labelled block for every hit of
\* the search, in rank order, separated by blank lines, and nothing else;
\* there are at most n blocks; without hits it returns the empty string.
C16_ContextIsLabelledHitsInRankOrder ==
    StoreOpDone("get_relevant_context") =>
        LET text == out.ret.s
            hits == out.hits
            k == Len(hits)
        IN  /\ out.ret.t = "str"
            /\ k <= out.arg
            /\ (k = 0 \/ ~out.retrieved) <=> (text = "")
            /\ out.retrieved =>
                  /\ \A i \in 1..k :
                        SubSeq(text, BlockOffset(hits, i) + 1,
                               BlockOffset(hits, i) + Len(LabelledBlock(hits[i])))
                          = LabelledBlock(hits[i])
                  /\ \A i \in 2..k :
                        SubSeq(text, BlockOffset(hits, i) - 1, BlockOffset(hits, i)) = "\n\n"
                  /\ (k > 0) => Len(text) = BlockOffset(hits, k) + Len(LabelledBlock(hits[k]))

\* two hits of different kinds, the example ranked before the documentation
C16_Witness ==
    /\ StoreOpDone("get_relevant_context")
    /\ out.retrieved
    /\ Len(out.hits) = 2
    /\ out.hits[1].type = "question_sql" /\ out.hits[2].type = "documentation"
    /\ out.hits[1].id > out.hits[2].id
    /\ Contains(out.ret.s, "\n\nDocumentation:\n")

Ids(fragments) == {fragments[i].id : i \in 1..Len(fragments)}

\* C18: remove_training returns a boolean and does not raise; the fragments
\* with another id are kept as they were and in their order; after a call
\* that returned true no fragment has the id, and a call with an id that
\* is not in the store (a second call, an unknown id) leaves the store as
\* it was, as does one more call after a call that returned true.
C18_RemoveTrainingIsIdempotent ==
    StoreOpDone("remove_training") =>
        /\ out.ret.t = "bool"
        /\ ~out.raised /\ ~escaped
        /\ SelectSeq(store, LAMBDA f : f.id # out.arg)
             = SelectSeq(out.before, LAMBDA f : f.id # out.arg)
        /\ \A i \in 1..Len(store) : \E j \in 1..Len(out.before) : store[i] = out.before[j]
        /\ out.ret.b => out.arg \notin Ids(store)
        /\ (out.arg \notin Ids(out.before)) => store = out.before
        /\ out.ret.b =>
              \A delete_ok \in BOOLEAN :
                  remove_training(collectionOk, store, out.arg, delete_ok).store = store

\* a call for an id that was handed out and is no longer in the store,
\* while other fragments are
C18_Witness ==
    /\ StoreOpDone("remove_training")
    /\ out.ret.b
    /\ out.arg < nextId
    /\ out.arg \notin Ids(out.before)
    /\ out.before # <<>>
    /\ store = out.before

FragmentKinds == {"ddl", "documentation", "question_sql"}

StoreWellFormed ==
    /\ \A i, j \in 1..Len(store) : (i # j) => store[i].id # store[j].id
    /\ \A i \in 1..Len(store) : store[i].type \in FragmentKinds
    /\ \A i \in 1..Len(store) : store[i].id < nextId

\* a fragment that enters the store has an id that is not below the
\* generator's position, while every id handed out before is below it
StoredIdsAreFresh ==
    /\ nextId' >= nextId
    /\ \A i \in 1..Len(store') :
          (store'[i].id \notin Ids(store)) => store'[i].id >= nextId

\* C19: after any sequence of train and remove_training calls the ids in
\* the store are pairwise distinct and every kind is one of the three; a
\* fragment that train stores has an id no fragment had before, removed
\* fragments included.
C19_IdsDistinctAndFresh == []StoreWellFormed /\ [][StoredIdsAreFresh]_vars

\* train stored a fragment under the second id while the store holds no
\* fragment with the first
C19_Witness ==
    /\ StoreOpDone("train")
    /\ out.ret.b
    /\ Len(store) = 1 /\ out.before = <<>>
    /\ store[1].id = 2

\* the vector index is missing, or a call to it raised
IndexFailed ==
    \/ ~collectionOk
    \/ StoreOpDone("get_relevant_context") /\ ~out.retrieved
    \/ StoreOpDone("get_training_data") /\ ~out.retrieved
    \/ StoreOpDone("get_all_training_data") /\ ~out.retrieved
    \/ StoreOpDone("train") /\ ~out.ret.b
    \/ StoreOpDone("remove_training") /\ ~out.ret.b

\* C20: no operation of the knowledge store raises, and when the index is
\* unavailable or a call to it raises, train and remove_training return
\* false, get_relevant_context returns "", get_all_training_data returns
\* the empty list and get_training_data reports a total of 0.
C20_StoreOperationsNeverRaise ==
    out.done =>
        /\ ~out.raised /\ ~escaped
        /\ IndexFailed =>
              /\ StoreOpDone("get_relevant_context") => out.ret = S("")
              /\ StoreOpDone("get_training_data") => out.ret = I(0)
              /\ StoreOpDone("get_all_training_data") => out.listed = <<>>
              /\ (StoreOpDone("remove_training") /\ ~collectionOk) => out.ret = B(FALSE)
              /\ (StoreOpDone("train") /\ ~collectionOk) => out.ret = B(FALSE)

---------------------------------------------------------------------------
(* Properties of is_contextual_question (DetectorSpec)                     *)

DetectorDone == out.fn = "is_contextual_question" /\ out.done

\* C13: is_contextual_question answers true for every question that
\* carries a configured marker, in lower or in upper case, and false for
\* every question that carries none; "Y CUÁNTOS hombres" and "y cuántos
\* hombres" are true and "¿Cuántos usuarios hay?" is false; the call
\* changes nothing and gives the same answer each time.
C13_DetectorIgnoresCase ==
    /\ DetectorDone =>
          /\ out.ret.t = "bool"
          /\ out.ret.b <=> (out.arg # 0)
          /\ out.ret.b = is_contextual_question(out.question)
          /\ store = <<>> /\ calls = <<>> /\ ~escaped
    /\ is_contextual_question("Y CUÁNTOS hombres")
    /\ is_contextual_question("y cuántos hombres")
    /\ ~is_contextual_question("¿Cuántos usuarios hay?")

\* a marker with an accented letter, in upper case inside a sentence
C13_Witness ==
    /\ DetectorDone
    /\ out.question = "¿TAMBIÉN hombres?"
    /\ out.ret = B(TRUE)

---------------------------------------------------------------------------
(* Properties of the conversation window (WindowSpec)                      *)

\* the places of text where key begins
Occurrences(text, key) ==
    {i \in 1..(Len(text) - Len(key) + 1) : SubSeq(text, i, i + Len(key) - 1) = key}

\* the rest of the line that begins at place p of text
LineFrom(text, p) ==
    LET stop == CHOOSE j \in p..(Len(text) + 1) :
                    /\ (j = Len(text) + 1 \/ Ch(text, j) = "\n")
                    /\ \A k \in p..(j - 1) : Ch(text, k) # "\n"
    IN  SubSeq(text, p, stop - 1)

EndsWith(s, suffix) ==
    Len(s) >= Len(suffix) /\ SubSeq(s, Len(s) - Len(suffix) + 1, Len(s)) = suffix

\* the questions of the inputs that carry a marker of the detector
MarkedQuestions == {"Y CUÁNTOS hombres"}

\* the text that holds the conversation block, the marker that opens a
\* turn in it, the marker that opens an answer excerpt, and the limits
WindowView ==
    IF out.fn = "generate_sql"
    THEN [text |-> out.prompts[1].user, turn |-> "\nInteraction ",
          excerpt |-> "Answer summary: ",
          limit |-> IF out.question \in MarkedQuestions THEN 7 ELSE 5, budget |-> 200]
    ELSE [text |-> out.prompts[1].conversation_context, turn |-> "\n- Preguntaste: ",
          excerpt |-> "\n  Respondí: ", limit |-> 3, budget |-> 150]

\* C11: for a history of any length the conversation block of the prompt
\* has at most limit turns (5 or 7 in generate_sql, 3 in generate_summary);
\* every answer excerpt in it is at most budget characters (200, 150)
\* followed by "..."; an answer within the budget is shown unchanged and
\* without the ellipsis, a longer one as its first budget characters and
\* the ellipsis.
C11_WindowAndExcerptsAreBounded ==
    (out.done /\ out.fn \in {"generate_sql", "generate_summary"}) =>
        /\ Len(out.prompts) = 1
        /\ LET v == WindowView
               n == Len(out.history)
               shown == IF n > v.limit THEN v.limit ELSE n
               starts == Occurrences(v.text, v.excerpt)
           IN  /\ Cardinality(Occurrences(v.text, v.turn)) <= v.limit
               /\ Cardinality(starts) <= v.limit
               /\ \A p \in starts :
                     LET shownAnswer == LineFrom(v.text, p + Len(v.excerpt))
                     IN  /\ Len(shownAnswer) <= v.budget + 3
                         /\ (Len(shownAnswer) > v.budget) =>
                               /\ Len(shownAnswer) = v.budget + 3
                               /\ EndsWith(shownAnswer, "...")
               /\ \A j \in (n - shown + 1)..n :
                     LET answer == out.history[j].answer.s
                     IN  IF answer = "" THEN TRUE
                         ELSE IF Len(answer) <= v.budget
                         THEN \E p \in starts :
                                  LineFrom(v.text, p + Len(v.excerpt)) = answer
                         ELSE \E p \in starts :
                                  LineFrom(v.text, p + Len(v.excerpt))
                                    = SubSeq(answer, 1, v.budget) \o "..."

\* nine turns whose answers are one character over the budget of
\* generate_sql, for a question with a marker
C11_Witness ==
    /\ out.done /\ out.fn = "generate_sql"
    /\ out.question = "Y CUÁNTOS hombres"
    /\ Len(out.history) = 9
    /\ Len(out.history[9].answer.s) = 201
    /\ Cardinality(Occurrences(out.prompts[1].user, "...\n")) = 7

\* the block generate_sql renders for the j-th turn of the history as the
\* k-th of the window, up to its answer
TurnHead(k, j) ==
    "\nInteraction " \o ToString(k) \o ":\n"
    \o "User asked: " \o out.history[j].question.s \o "\n"
    \o "SQL generated: " \o out.history[j].sql.s \o "\n"

\* C12: generate_sql renders the last min(limit, len(history)) turns, in
\* their order, limit being 7 for a question the detector flags and 5
\* otherwise; no older turn is in the prompt; and without history the
\* conversation block is empty.
C12_SqlWindowIsLastTurnsInOrder ==
    (out.done /\ out.fn = "generate_sql") =>
        /\ Len(out.prompts) = 1
        /\ LET text == out.prompts[1].user
               n == Len(out.history)
               limit == IF out.question \in MarkedQuestions THEN 7 ELSE 5
               shown == IF n > limit THEN limit ELSE n
               place(k) == CHOOSE p \in Occurrences(text, TurnHead(k, n - shown + k)) : TRUE
           IN  /\ Cardinality(Occurrences(text, "\nInteraction ")) = shown
               /\ \A k \in 1..shown :
                     Cardinality(Occurrences(text, TurnHead(k, n - shown + k))) = 1
               /\ \A k \in 1..(shown - 1) : place(k) < place(k + 1)
               /\ \A j \in 1..(n - shown) :
                     /\ ~Contains(text, out.history[j].question.s \o "\n")
                     /\ ~Contains(text, out.history[j].sql.s \o "\n")
               /\ (n = 0) =>
                     text = "DATABASE CONTEXT:\n" \o out.context \o "\n"
                            \o "\n\nCURRENT USER QUESTION:\n" \o out.question
                            \o "\n\nSQL QUERY:\n"
               /\ (n > 0) => Contains(text, "\n\nPREVIOUS CONVERSATION CONTEXT:\n\nInteraction 1:")

\* nine turns, a flagged question: turns 3 to 9 are shown
C12_Witness ==
    /\ out.done /\ out.fn = "generate_sql"
    /\ out.question = "Y CUÁNTOS hombres"
    /\ Len(out.history) = 9
    /\ Contains(out.prompts[1].user, "\nInteraction 1:\nUser asked: pregunta 3\n")
    /\ Contains(out.prompts[1].user, "\nInteraction 7:\nUser asked: pregunta 9\n")

\* C15: with a non-empty history the user prompt of generate_sql holds the
\* question and the SQL of every turn of the window, and the current
\* question after them, whether the question is flagged or not.
C15_PromptHoldsWindowAndQuestion ==
    (out.done /\ out.fn = "generate_sql" /\ out.history # <<>>) =>
        /\ Len(out.prompts) = 1
        /\ LET text == out.prompts[1].user
               n == Len(out.history)
               limit == IF is_contextual_question(out.question) THEN 7 ELSE 5
               current == "CURRENT USER QUESTION:\n" \o out.question \o "\n"
           IN  /\ Cardinality(Occurrences(text, current)) = 1
               /\ \A j \in 1..n :
                     (j > n - limit) =>
                        /\ \E p \in Occurrences(text, "User asked: " \o out.history[j].question.s \o "\n") :
                              \A c \in Occurrences(text, current) : p < c
                        /\ \E p \in Occurrences(text, "SQL generated: " \o out.history[j].sql.s \o "\n") :
                              \A c \in Occurrences(text, current) : p < c

\* one prior turn and a question the detector does not flag
C15_Witness ==
    /\ out.done /\ out.fn = "generate_sql"
    /\ out.question = "¿y hombres?"
    /\ Len(out.history) = 1
    /\ Contains(out.prompts[1].user, "SQL generated: SELECT 1\n")
    /\ Contains(out.prompts[1].user, "CURRENT USER QUESTION:\n¿y hombres?\n")
    /\ ~out.prompts[1].system.contextual_note

---------------------------------------------------------------------------
(* Properties of train's return value (StoreSpec)                          *)

\* C28: train returns true if and only if that call added exactly one new
\* fragment to the store: a call that returns true leaves the store one
\* fragment longer, and a call that adds nothing (index unavailable, index
\* error, or arguments naming none of ddl, documentation or a question with
\* its sql) returns false and leaves the store as it was.
C28_TrainTrueIffOneFragmentAdded ==
    StoreOpDone("train") =>
        /\ (out.ret = B(TRUE)) <=>
              (/\ Len(store) = Len(out.before) + 1
               /\ SubSeq(store, 1, Len(out.before)) = out.before)
        /\ (out.ret # B(TRUE)) => (out.ret = B(FALSE) /\ store = out.before)

---------------------------------------------------------------------------
(* LocalVannaService.generate_prompt, the debug operation behind            *)
(* POST /vanna/debug-prompt.  The initial states draw the store, the        *)
(* question, what the index answers to the retrieval and what the language  *)
(* model would answer if it were called.                                    *)

DEBUG_PROMPT_HEAD ==
    "You are a SQL expert. Generate a SQL query for MySQL based on the following:\n            \nContext from database:\n"

DEBUG_PROMPT_TAIL == "\n\nReturn only the SQL query without any explanation."

\* lines 446-453: the f-string
DebugPrompt(context, question) ==
    DEBUG_PROMPT_HEAD \o context \o "\n\nUser question: " \o question \o DEBUG_PROMPT_TAIL

\* the dictionaries generate_prompt returns
DebugInfo(question, context, prompt) ==
    [t |-> "dict", success |-> TRUE, question |-> question,
     context_retrieved |-> context, full_prompt |-> prompt, error |-> ""]

DebugFailure(e) ==
    [t |-> "dict", success |-> FALSE, question |-> "", context_retrieved |-> "",
     full_prompt |-> "", error |-> e]

\* the try block, lines 441-460: [raised, error, ret]
GeneratePromptBody(question, context, fault) ==
    IF fault.raised THEN [raised |-> TRUE, error |-> fault.error, ret |-> Missing]
    ELSE [raised |-> FALSE, error |-> "",
          ret |-> DebugInfo(question, context, DebugPrompt(context, question))]

\* Mutation of generate_prompt: the try block without its except clause
generate_prompt_without_except(question, context, fault) ==
    LET body == GeneratePromptBody(question, context, fault)
    IN  [raised |-> body.raised, ret |-> body.ret, prompts |-> <<>>]

\* lines 437-463: the except clause returns the failure record; no request
\* to the language model is made on any path
generate_prompt(question, context, fault) ==
    LET body == GeneratePromptBody(question, context, fault)
    IN  IF body.raised
        THEN [raised |-> FALSE, ret |-> DebugFailure(body.error), prompts |-> <<>>]
        ELSE [raised |-> FALSE, ret |-> body.ret, prompts |-> <<>>]

PromptInit ==
    /\ StoreStates
    /\ IdleHandler
    /\ \E question \in Questions, qres \in QueryOutcomes(store, N_RESULTS),
          llm \in SqlLlmOutcomes :
          out = PendingCall("generate_prompt", question, "", <<>>, <<>>,
                            collectionOk /\ qres.kind # "raise",
                            get_relevant_context(collectionOk, qres), llm)

\* LocalVannaService.generate_prompt(question)
CallGeneratePrompt ==
    /\ out.fn = "generate_prompt" /\ ~out.done
    /\ \E fault \in Faults :
          LET g == generate_prompt(out.question, out.context, fault)
          IN  /\ out' = [out EXCEPT !.done = TRUE, !.raised = g.raised, !.ret = g.ret,
                                    !.prompts = g.prompts]
              /\ calls' = LlmCalls(g, out.llm)
              /\ escaped' = g.raised
    /\ UNCHANGED <<pool, chat_history, trainer, collectionOk, store, nextId, pc, req, sql,
                   results, resp>>

PromptNext == CallGeneratePrompt

PromptSpec == PromptInit /\ [][PromptNext]_vars

\* C24: generate_prompt runs retrieval and prompt assembly and never calls
\* the language model, for every question: it returns the retrieved context
\* and the full prompt built from that context and the question, and on a
\* failure it returns a failure record instead of raising.
C24_DebugPromptNeverCallsModel ==
    (out.fn = "generate_prompt" /\ out.done) =>
        /\ calls = <<>>
        /\ out.prompts = <<>>
        /\ ~out.raised /\ ~escaped
        /\ out.ret.t = "dict"
        /\ out.ret.success =>
              /\ out.ret.question = out.question
              /\ out.ret.context_retrieved = out.context
              /\ Contains(out.ret.full_prompt, "Context from database:\n" \o out.context \o "\n")
              /\ Contains(out.ret.full_prompt, "User question: " \o out.question \o "\n")
        /\ ~out.ret.success => out.ret.full_prompt = ""

\* a retrieval that found fragments, a model that would have answered, and
\* a prompt that was returned without asking it
C24_Witness ==
    /\ out.fn = "generate_prompt" /\ out.done
    /\ out.retrieved /\ out.context # ""
    /\ out.llm.kind = "text"
    /\ out.ret.t = "dict" /\ out.ret.success
    /\ out.ret.context_retrieved = out.context
    /\ calls = <<>>

\* C25: the full prompt of the debug operation is the prompt generate_sql
\* sends to the language model for the same question and no conversation
\* history: it holds, verbatim, the user message of that request (the
\* retrieved context, the question and the instructions framing them).
C25_DebugPromptIsSentPrompt ==
    (out.fn = "generate_prompt" /\ out.done /\ out.ret.t = "dict" /\ out.ret.success) =>
        LET sent == generate_sql(out.question, <<>>, out.ret.context_retrieved, out.llm).prompts
        IN  /\ Len(sent) = 1
            /\ Contains(out.ret.full_prompt, sent[1].user)

---------------------------------------------------------------------------
(* The clean-up of the model's completion in generate_sql.  The initial     *)
(* states draw completions with and without a fenced block, with several    *)
(* language tags after the opening fence, with and without text around it.  *)

FenceTags == {"", "sql", "SQL", "mysql"}

FenceBodies == {"SELECT COUNT(*) FROM users", "SELECT 1"}

FenceLeads == {"", "Here is the query:\n"}

FenceTrails == {"", "\n"}

\* a completion with one fenced block: opening fence, language tag, body,
\* closing fence
FencedCompletion(lead, tag, body, trail) ==
    lead \o Fence \o tag \o "\n" \o body \o "\n" \o Fence \o trail

\* the text of that completion outside its fence markers and language tag
OutsideFence(lead, body, trail) == lead \o "\n" \o body \o "\n" \o trail

PlainCompletions == {"SELECT 1", "  SELECT 1;\n"}

FenceCompletions ==
    PlainCompletions
    \cup {FencedCompletion(lead, tag, body, trail) :
            lead \in FenceLeads, tag \in FenceTags, body \in FenceBodies,
            trail \in FenceTrails}

FenceInit ==
    /\ collectionOk = TRUE
    /\ store = <<>>
    /\ nextId = 1
    /\ IdleHandler
    /\ \E question \in Questions, text \in FenceCompletions :
          out = PendingCall("generate_sql", question, "", <<>>, <<>>, TRUE, "",
                            LlmText(text))

FenceNext == CallGenerateSql

FenceSpec == FenceInit /\ [][FenceNext]_vars

\* C27: for every raw completion the SQL generate_sql returns holds no
\* triple-backtick fence marker and no language tag left over from an
\* opening fence, and has no leading or trailing whitespace; the text
\* outside the fence markers is returned unchanged.
C27_CleanSqlStripsFenceAndTag ==
    (out.fn = "generate_sql" /\ out.done /\ out.llm.kind = "text") =>
        /\ out.ret.t = "str"
        /\ ~Contains(out.ret.s, Fence)
        /\ out.ret.s = Strip(out.ret.s)
        /\ \A text \in PlainCompletions :
              out.llm.text = text => out.ret.s = Strip(text)
        /\ \A lead \in FenceLeads, tag \in FenceTags, body \in FenceBodies,
              trail \in FenceTrails :
              out.llm.text = FencedCompletion(lead, tag, body, trail) =>
                  out.ret.s = Strip(OutsideFence(lead, body, trail))

---------------------------------------------------------------------------
(* Example fragments: what train(question=..., sql=...) hands to the index. *)
(* The questions and statements are free text and may hold line breaks.     *)

\* line 111
ExampleContent(question, sql_text) == "Question: " \o question \o "\nSQL: " \o sql_text

\* lines 114-118: the metadata stored next to the document
ExampleMetadata(kwargs) ==
    [type |-> "question_sql", question |-> kwargs.question, sql |-> kwargs.sql]

ExampleQuestions ==
    {"¿Cuántos usuarios hay?", "¿Cuántos usuarios hay?\nSQL: SELECT 1", "¿y hombres?"}

ExampleSqls ==
    {"SELECT 2", "SELECT 1\nSQL: SELECT 2", "SELECT COUNT(*) FROM users", "SELECT 1"}

ExampleInit ==
    /\ collectionOk = TRUE
    /\ store = <<>>
    /\ nextId = 1
    /\ IdleHandler
    /\ out = NoOut

\* a caller runs train(question=question, sql=sql); out.listed keeps, for
\* every fragment of the store, the metadata handed to collection.add with it
TrainExample ==
    /\ pc = "idle"
    /\ nextId <= MaxStore
    /\ \E question \in ExampleQuestions, sql_text \in ExampleSqls :
          LET kwargs == Kwargs(Missing, Missing, S(question), S(sql_text))
              r == train(collectionOk, store, nextId, kwargs, TRUE)
          IN  /\ store' = r.store
              /\ nextId' = nextId + 1
              /\ out' = [out EXCEPT !.fn = "train", !.question = question,
                                    !.sql = sql_text, !.ret = B(r.ret), !.done = TRUE,
                                    !.arg = nextId, !.before = store,
                                    !.listed = Append(out.listed, ExampleMetadata(kwargs))]
    /\ UNCHANGED <<pool, chat_history, trainer, collectionOk, pc, req, sql, results, resp,
                   escaped, calls>>

ExampleNext == TrainExample

ExampleSpec == ExampleInit /\ [][ExampleNext]_vars

\* C26: the content of an example fragment is a function of its question and
\* SQL from which both can be told apart again: the content is the one
\* train builds from the pair, two fragments trained from different
\* (question, SQL) pairs never have the same content, and the question and
\* SQL kept in the metadata are the ones given to train.
C26_ExampleContentIsInjective ==
    (out.fn = "train" /\ out.done) =>
        /\ Len(out.listed) = Len(store)
        /\ out.listed[Len(store)].question = S(out.question)
        /\ out.listed[Len(store)].sql = S(out.sql)
        /\ \A i \in 1..Len(store) :
              store[i].document =
                  ExampleContent(out.listed[i].question.s, out.listed[i].sql.s)
        /\ \A i, j \in 1..Len(store) :
              (out.listed[i] # out.listed[j]) => (store[i].document # store[j].document)

---------------------------------------------------------------------------
(* get_all_training_data next to other writers of the same store.  The      *)
(* call reads the index twice, collection.count() and then                  *)
(* collection.get(limit=count); the training scripts and other server       *)
(* processes add and delete fragments of the same persistent collection in  *)
(* between.  The order in which collection.get lists fragments is the       *)
(* index's own.                                                             *)

Range(seq) == {seq[i] : i \in 1..Len(seq)}

\* collection.get(limit=limit, include=[...]): it raises, or lists
\* min(limit, count) distinct fragments in an order the index chooses
GetOutcomes(fragments, limit) ==
    LET k == Min(limit, Len(fragments))
        listings == {r \in [1..k -> 1..Len(fragments)] :
                        \A a, b \in 1..k : a # b => r[a] # r[b]}
    IN  {[kind |-> "raise", data |-> <<>>]}
        \cup {[kind |-> "data", data |-> [i \in 1..k |-> fragments[r[i]]]] : r \in listings}

\* lines 414-424: the formatted rows
FormattedData(data) ==
    [i \in 1..Len(data) |->
        [id |-> data[i].id, document |-> data[i].document, metadata |-> data[i].type]]

ListInit ==
    /\ StoreStates
    /\ IdleHandler
    /\ out = NoOut

\* lines 401-408: the collection test and collection.count()
ListCount ==
    /\ pc = "idle"
    /\ \E count_ok \in BOOLEAN :
          LET o == [NoOut EXCEPT !.fn = "get_all_training_data", !.before = store]
          IN  IF ~collectionOk
              THEN /\ out' = [o EXCEPT !.done = TRUE]
                   /\ pc' = "responded"
                   /\ escaped' = FALSE
              ELSE IF ~count_ok
              THEN /\ out' = [o EXCEPT !.done = TRUE, !.raised = TRUE]
                   /\ pc' = "responded"
                   /\ escaped' = TRUE
              ELSE IF Len(store) = 0
              THEN /\ out' = [o EXCEPT !.done = TRUE, !.retrieved = TRUE]
                   /\ pc' = "responded"
                   /\ escaped' = FALSE
              ELSE /\ out' = [o EXCEPT !.arg = Len(store)]
                   /\ pc' = "counted"
                   /\ escaped' = FALSE
    /\ UNCHANGED <<pool, chat_history, trainer, collectionOk, store, nextId, req, sql,
                   results, resp, calls>>

\* lines 410-424: collection.get(limit=count) and the formatting of its rows
ListGet ==
    /\ pc = "counted"
    /\ \E g \in GetOutcomes(store, out.arg) :
          /\ out' = [out EXCEPT !.done = TRUE, !.raised = (g.kind = "raise"),
                                !.retrieved = (g.kind = "data"),
                                !.listed = FormattedData(g.data)]
          /\ escaped' = (g.kind = "raise")
    /\ pc' = "responded"
    /\ UNCHANGED <<pool, chat_history, trainer, collectionOk, store, nextId, req, sql,
                   results, resp, calls>>

\* another request or a training script runs train(...) on the collection
ConcurrentTrain ==
    /\ pc \in {"idle", "counted"}
    /\ Len(store) <= MaxStore
    /\ nextId <= MaxStore + 2
    /\ \E kwargs \in TrainKwargs, add_ok \in BOOLEAN :
          /\ store' = train(collectionOk, store, nextId, kwargs, add_ok).store
          /\ nextId' = IF collectionOk THEN nextId + 1 ELSE nextId
    /\ UNCHANGED <<pool, chat_history, trainer, collectionOk, pc, req, sql, results, resp,
                   escaped, calls, out>>

\* another request runs remove_training(training_id) on the collection
ConcurrentRemove ==
    /\ pc \in {"idle", "counted"}
    /\ \E f \in Range(store), delete_ok \in BOOLEAN :
          store' = remove_training(collectionOk, store, f.id, delete_ok).store
    /\ UNCHANGED <<pool, chat_history, trainer, collectionOk, nextId, pc, req, sql, results,
                   resp, escaped, calls, out>>

ListNext ==
    \/ ListCount
    \/ ListGet
    \/ ConcurrentTrain
    \/ ConcurrentRemove
    \/ Return

ListSpec == ListInit /\ [][ListNext]_vars

\* C21: get_all_training_data returns every fragment of the store exactly
\* once, whatever the size of the store, and when an add or a remove of
\* another request falls between its count and its get, every fragment that
\* was in the store during the whole call is in the returned list.
C21_ListIsCompleteUnderConcurrentWrites ==
    (out.fn = "get_all_training_data" /\ out.done /\ out.retrieved) =>
        /\ \A i, j \in 1..Len(out.listed) :
              (out.listed[i].id = out.listed[j].id) => i = j
        /\ \A f \in Range(out.before) :
              (f \in Range(store)) =>
                  \E i \in 1..Len(out.listed) :
                      /\ out.listed[i].id = f.id
                      /\ out.listed[i].document = f.document
        /\ (store = out.before) => Len(out.listed) = Len(store)

---------------------------------------------------------------------------
(* The training script: VannaTrainer.run.  One step per item; each step     *)
(* draws what the database answers to SHOW CREATE TABLE and whether the     *)
(* index accepts the fragment.                                              *)

MaxTables == 2

\* the tables SHOW TABLES may list, in its order
ALL_TABLES == <<"users", "requests", "procedures", "forms">>

\* lines 95-99
documentation_to_train ==
    << "La tabla #users# contiene todos los usuarios del sistema. El rol se encuentra en #current_role#.",
       "La tabla #procedures# define los tipos de trámites disponibles en la plataforma.",
       "La tabla #requests# guarda cada solicitud o trámite iniciado por un usuario." >>

\* lines 101-105
sql_examples_to_train ==
    << [question |-> "¿Cuántos usuarios hay?", sql |-> "SELECT COUNT(*) FROM users"],
       [question |-> "¿Cuáles son los 5 trámites más recientes?",
        sql |-> "SELECT * FROM requests ORDER BY created_at DESC LIMIT 5"],
       [question |-> "Muéstrame los usuarios administradores",
        sql |-> "SELECT * FROM users WHERE current_role = 'admin'"] >>

\* run_sql("SHOW TABLES"): None or an empty frame, or the table names
ShowTablesOutcomes ==
    {[kind |-> "none", names |-> <<>>]}
    \cup {[kind |-> "names", names |-> SubSeq(ALL_TABLES, 1, k)] :
            k \in 1..Min(MaxTables, Len(ALL_TABLES))}

\* run_sql("SHOW CREATE TABLE ..."): None or an empty frame ("none"), a
\* frame whose first row has no second column ("malformed"), or the DDL
ShowCreateOutcomes == {"none", "malformed", "ddl"}

DdlOf(name) == "CREATE TABLE " \o name \o " (id INT)"

Bump(stats, counter) == [stats EXCEPT ![counter] = @ + 1]

\* an entry of the log of items the run has taken up
Processed(kind, item, outcome) == [kind |-> kind, item |-> item, outcome |-> outcome]

TrainerInit ==
    /\ StoreStates
    /\ pc = "idle"
    /\ pool = ClosedPool
    /\ chat_history = <<>>
    /\ req = NoRequest
    /\ sql = PyNone
    /\ results = <<>>
    /\ resp = NoResponse
    /\ escaped = FALSE
    /\ calls = <<>>
    /\ out = [NoOut EXCEPT !.fn = "run", !.before = store]
    /\ \E connected \in BOOLEAN : trainer = [NewTrainer EXCEPT !.connected = connected]

\* the trainer enters train_documentation
EnterDocs(t) == [t EXCEPT !.pc = "docs", !.todo = documentation_to_train]

\* run, lines 88-107, and train_schema up to its loop, lines 36-48
TrainerRun ==
    /\ trainer.pc = "new"
    /\ IF ~trainer.connected
       THEN trainer' = [trainer EXCEPT !.pc = "done"]
       ELSE \E tables \in ShowTablesOutcomes :
               IF tables.kind = "none"
               THEN trainer' = EnterDocs([trainer EXCEPT !.stats = Bump(@, "errors")])
               ELSE trainer' = [trainer EXCEPT !.pc = "schema",
                                               !.table_names = tables.names,
                                               !.todo = tables.names]
    /\ UNCHANGED <<pool, chat_history, collectionOk, store, nextId, pc, req, sql, results,
                   resp, escaped, calls, out>>

\* one pass of the loop of train_schema, lines 50-60, and its except clause,
\* lines 64-66
TrainTable ==
    /\ trainer.pc = "schema"
    /\ \E ddl_df \in ShowCreateOutcomes, add_ok \in BOOLEAN :
          LET name == Head(trainer.todo)
              rest == Tail(trainer.todo)
              r == train(collectionOk, store, nextId,
                         Kwargs(S(DdlOf(name)), Missing, Missing, Missing), add_ok)
              log(outcome) == Append(trainer.processed, Processed("table", name, outcome))
              after(t) == IF rest = <<>> THEN EnterDocs(t) ELSE [t EXCEPT !.todo = rest]
          IN  CASE ddl_df = "none" ->
                     /\ trainer' = after([trainer EXCEPT !.processed = log("skipped")])
                     /\ UNCHANGED <<store, nextId>>
                [] ddl_df = "malformed" ->
                     /\ trainer' = EnterDocs([trainer EXCEPT !.processed = log("raised"),
                                                             !.stats = Bump(@, "errors")])
                     /\ UNCHANGED <<store, nextId>>
                [] OTHER ->
                     /\ trainer' =
                           after([trainer EXCEPT
                                    !.processed = log(IF r.ret THEN "trained" ELSE "failed"),
                                    !.stats = Bump(@, IF r.ret THEN "tables_trained"
                                                      ELSE "errors")])
                     /\ store' = r.store
                     /\ nextId' = IF collectionOk THEN nextId + 1 ELSE nextId
    /\ UNCHANGED <<pool, chat_history, collectionOk, pc, req, sql, results, resp, escaped,
                   calls, out>>

\* one pass of the loop of train_documentation, lines 71-75
TrainDocumentation ==
    /\ trainer.pc = "docs"
    /\ \E add_ok \in BOOLEAN :
          LET doc == Head(trainer.todo)
              rest == Tail(trainer.todo)
              r == train(collectionOk, store, nextId,
                         Kwargs(Missing, S(doc), Missing, Missing), add_ok)
              t == [trainer EXCEPT
                      !.processed = Append(@, Processed("doc", doc,
                                                 IF r.ret THEN "trained" ELSE "failed")),
                      !.stats = Bump(@, IF r.ret THEN "docs_trained" ELSE "errors")]
          IN  /\ trainer' = IF rest = <<>>
                            THEN [t EXCEPT !.pc = "queries", !.todo = sql_examples_to_train]
                            ELSE [t EXCEPT !.todo = rest]
              /\ store' = r.store
              /\ nextId' = IF collectionOk THEN nextId + 1 ELSE nextId
    /\ UNCHANGED <<pool, chat_history, collectionOk, pc, req, sql, results, resp, escaped,
                   calls, out>>

\* one pass of the loop of train_sql_queries, lines 81-85
TrainSqlQuery ==
    /\ trainer.pc = "queries"
    /\ \E add_ok \in BOOLEAN :
          LET q == Head(trainer.todo)
              rest == Tail(trainer.todo)
              r == train(collectionOk, store, nextId,
                         Kwargs(Missing, Missing, S(q.question), S(q.sql)), add_ok)
              t == [trainer EXCEPT
                      !.processed = Append(@, Processed("query", q.question,
                                                 IF r.ret THEN "trained" ELSE "failed")),
                      !.stats = Bump(@, IF r.ret THEN "queries_trained" ELSE "errors")]
          IN  /\ trainer' = IF rest = <<>>
                            THEN [t EXCEPT !.pc = "summary", !.todo = <<>>]
                            ELSE [t EXCEPT !.todo = rest]
              /\ store' = r.store
              /\ nextId' = IF collectionOk THEN nextId + 1 ELSE nextId
    /\ UNCHANGED <<pool, chat_history, collectionOk, pc, req, sql, results, resp, escaped,
                   calls, out>>

\* the summary of run, lines 109-123
TrainerReport ==
    /\ trainer.pc = "summary"
    /\ trainer' = [trainer EXCEPT !.pc = "done", !.reported = TRUE]
    /\ UNCHANGED <<pool, chat_history, collectionOk, store, nextId, pc, req, sql, results,
                   resp, escaped, calls, out>>

TrainerNext ==
    \/ TrainerRun
    \/ TrainTable
    \/ TrainDocumentation
    \/ TrainSqlQuery
    \/ TrainerReport

TrainerSpec == TrainerInit /\ [][TrainerNext]_vars

\* the entries of the log for one kind of item
ProcessedOf(kind) ==
    {i \in 1..Len(trainer.processed) : trainer.processed[i].kind = kind}

\* the fragments of one type the run added to the store
AddedOf(type) ==
    {i \in 1..Len(store) : i > Len(out.before) /\ store[i].type = type}

TrainerDone == trainer.pc = "done" /\ trainer.connected

C23_EveryItemCountedOnce ==
    TrainerDone =>
        /\ trainer.stats.tables_trained + trainer.stats.docs_trained
              + trainer.stats.queries_trained + trainer.stats.errors
           = Len(trainer.processed)
        /\ trainer.stats.tables_trained = Cardinality(AddedOf("ddl"))
        /\ trainer.stats.docs_trained = Cardinality(AddedOf("documentation"))
        /\ trainer.stats.queries_trained = Cardinality(AddedOf("question_sql"))

---------------------------------------------------------------------------
(* database.get_db_connection and the connection pool behind it.  Every     *)
(* attempt draws what the database does: whether a connect succeeds,        *)
(* whether the ping of the kept connection succeeds, whether the reconnect  *)
(* after a failed ping succeeds.  pool.pinged is whether the last ping is   *)
(* younger than ping_interval.                                              *)

MaxConnections == 3

max_retries == 3

RETRY_DELAY == 1

\* Mutation of Backoff: the delay is not doubled
Backoff_constant(retry_delay) == retry_delay

\* line 98: retry_delay *= 2
Backoff(retry_delay) == retry_delay * 2

\* DatabaseConnectionPool._ensure_connected(conn), lines 46-58: [raised,
\* conn, created, pinged]; conn is the connection returned
EnsureConnected(conn, created, pinged, ping_ok, reconnect_ok) ==
    IF pinged \/ ping_ok
    THEN [raised |-> FALSE, conn |-> conn, created |-> created, pinged |-> TRUE]
    ELSE IF reconnect_ok
    THEN [raised |-> FALSE, conn |-> created + 1, created |-> created + 1,
          pinged |-> FALSE]
    ELSE [raised |-> TRUE, conn |-> conn, created |-> created, pinged |-> FALSE]

\* DatabaseConnectionPool.get_connection, lines 60-67: [raised, connection,
\* created, pinged]; connection, created and pinged are the pool's fields
\* after the call.  When the connect of a pool without connection raises,
\* the pool stays without one; when _ensure_connected raises, the pool keeps
\* the connection it had or had just made.
get_connection(p, connect_ok, ping_ok, reconnect_ok) ==
    IF p.connection = 0 /\ ~connect_ok
    THEN [raised |-> TRUE, connection |-> 0, created |-> p.created, pinged |-> p.pinged]
    ELSE LET made == IF p.connection = 0 THEN p.created + 1 ELSE p.created
             conn == IF p.connection = 0 THEN made ELSE p.connection
             e == EnsureConnected(conn, made, p.pinged, ping_ok, reconnect_ok)
         IN  [raised |-> e.raised, connection |-> e.conn, created |-> e.created,
              pinged |-> e.pinged]

ConnInit ==
    /\ collectionOk = TRUE
    /\ store = <<>>
    /\ nextId = 1
    /\ IdleHandler
    /\ out = NoOut

\* a caller enters get_db_connection: lines 87-88
GetDbConnection ==
    /\ pool.pc = "idle"
    /\ pool.created < MaxConnections
    /\ pool' = [pool EXCEPT !.pc = "attempting", !.attempt = 0, !.retry_delay = RETRY_DELAY,
                            !.slept = <<>>, !.attempts = <<>>, !.result = "none",
                            !.returned = 0]
    /\ UNCHANGED <<chat_history, trainer, collectionOk, store, nextId, pc, req, sql, results,
                   resp, escaped, calls, out>>

\* one pass of the loop, lines 90-100, up to the return, the sleep or the raise
ConnectionAttempt ==
    /\ pool.pc = "attempting"
    /\ \E connect_ok \in BOOLEAN, ping_ok \in BOOLEAN, reconnect_ok \in BOOLEAN :
          LET g == get_connection(pool, connect_ok, ping_ok, reconnect_ok)
              p == [pool EXCEPT !.connection = g.connection, !.created = g.created,
                                !.pinged = g.pinged]
          IN  IF ~g.raised
              THEN pool' = [p EXCEPT !.pc = "returned", !.result = "connection",
                                     !.returned = g.connection,
                                     !.attempts = Append(@, "ok")]
              ELSE IF pool.attempt < max_retries - 1
              THEN pool' = [p EXCEPT !.pc = "sleeping", !.attempts = Append(@, "failed")]
              ELSE pool' = [p EXCEPT !.pc = "raised", !.result = "error",
                                     !.attempts = Append(@, "failed")]
    /\ UNCHANGED <<chat_history, trainer, collectionOk, store, nextId, pc, req, sql, results,
                   resp, escaped, calls, out>>

\* time.sleep(retry_delay) returns: lines 97-98 and the next value of attempt
BackoffSleep ==
    /\ pool.pc = "sleeping"
    /\ \E pinged \in {pool.pinged, FALSE} :
          pool' = [pool EXCEPT !.pc = "attempting", !.slept = Append(@, pool.retry_delay),
                               !.retry_delay = Backoff(@), !.attempt = @ + 1,
                               !.pinged = pinged]
    /\ UNCHANGED <<chat_history, trainer, collectionOk, store, nextId, pc, req, sql, results,
                   resp, escaped, calls, out>>

\* the caller has the connection or the exception; the pool waits for the
\* next call
ConnectionHandedOver ==
    /\ pool.pc \in {"returned", "raised"}
    /\ pool' = [pool EXCEPT !.pc = "idle"]
    /\ UNCHANGED <<chat_history, trainer, collectionOk, store, nextId, pc, req, sql, results,
                   resp, escaped, calls, out>>

\* ping_interval seconds pass without a ping
PingIntervalElapses ==
    /\ pool.pinged
    /\ pool' = [pool EXCEPT !.pinged = FALSE]
    /\ UNCHANGED <<chat_history, trainer, collectionOk, store, nextId, pc, req, sql, results,
                   resp, escaped, calls, out>>

\* connection_pool.close_connection(), lines 69-78
CloseConnection ==
    /\ pool.pc = "idle"
    /\ pool.connection # 0
    /\ pool' = [pool EXCEPT !.connection = 0]
    /\ UNCHANGED <<chat_history, trainer, collectionOk, store, nextId, pc, req, sql, results,
                   resp, escaped, calls, out>>

ConnNext ==
    \/ GetDbConnection
    \/ ConnectionAttempt
    \/ BackoffSleep
    \/ ConnectionHandedOver
    \/ PingIntervalElapses
    \/ CloseConnection

\* a connection attempt returns or raises (connect_timeout), and a sleep ends
ConnSpec ==
    /\ ConnInit
    /\ [][ConnNext]_vars
    /\ WF_vars(ConnectionAttempt)
    /\ WF_vars(BackoffSleep)

Failures(attempts) == Cardinality({i \in 1..Len(attempts) : attempts[i] = "failed"})

ConnectionCallShape ==
    /\ Len(pool.attempts) <= max_retries
    /\ pool.slept = SubSeq(<<1, 2>>, 1, Len(pool.slept))
    /\ \A i \in 1..Len(pool.attempts) :
          (pool.attempts[i] = "ok") => i = Len(pool.attempts)
    /\ (pool.pc = "attempting") =>
          /\ Len(pool.attempts) < max_retries
          /\ Len(pool.slept) = Len(pool.attempts)
          /\ Failures(pool.attempts) = Len(pool.attempts)
    /\ (pool.pc = "returned") =>
          /\ pool.result = "connection"
          /\ pool.returned # 0 /\ pool.returned = pool.connection
          /\ pool.attempts[Len(pool.attempts)] = "ok"
          /\ Len(pool.slept) = Failures(pool.attempts)
    /\ (pool.pc = "raised") =>
          /\ pool.result = "error"
          /\ pool.attempts = <<"failed", "failed", "failed">>
          /\ pool.slept = <<1, 2>>
    /\ (pool.result = "error") => Failures(pool.attempts) = max_retries

\* C29: get_db_connection always terminates: it makes at most 3 attempts,
\* sleeps 1 second after the first failed attempt and 2 seconds after the
\* second, returns the connection of the first attempt that succeeds
\* without a further attempt, and after the third failure raises instead of
\* returning; every call that was entered returns or raises.
C29_GetDbConnectionTerminates ==
    /\ []ConnectionCallShape
    /\ (pool.pc \in {"attempting", "sleeping"}) ~> (pool.pc \in {"returned", "raised"})

\* a call that failed twice, slept 1 and 2 seconds and got its connection
\* from the third attempt
C29_Witness ==
    /\ pool.pc = "returned"
    /\ pool.attempts = <<"failed", "failed", "ok">>
    /\ pool.slept = <<1, 2>>
    /\ pool.result = "connection"

---------------------------------------------------------------------------
(* The chat client: process_chat_input of the Streamlit frontend.  Each     *)
(* input draws the prompt and what POST /mindsdb/chat answers; req is the   *)
(* request the client sent.                                                 *)

MaxTurns == 6

CLIENT_WINDOW == 10

\* lines 305-309, without the two pictographs of the text
CHAT_ERROR_MESSAGE ==
    "No pude procesar tu pregunta. Intenta reformularla de manera más específica.\n\nTips: Menciona nombres de tablas específicas o usa términos como 'usuarios', 'formularios', 'trámites'"

\* the dictionaries of st.session_state.chat_history; sql is Missing when
\* the dictionary has no "sql" key
UserMessage(content) == [role |-> "user", content |-> content, sql |-> Missing]

AssistantMessage(content, sql_value) ==
    [role |-> "assistant", content |-> content, sql |-> sql_value]

\* list.index(msg): the position of the first element equal to msg
IndexOf(history, msg) ==
    CHOOSE i \in 1..Len(history) :
        /\ history[i] = msg
        /\ \A j \in 1..(i - 1) : history[j] # msg

\* lines 276-281: the turn built from a user message and the message at
\* the position after user_idx
ClientTurn(history, user_idx) ==
    [question |-> history[user_idx].content,
     answer |-> history[user_idx + 1].content,
     sql |-> GetOr(history[user_idx + 1].sql, S("")).s]

RECURSIVE ClientTurns(_, _)
\* lines 270-281 for the messages of the window from position `from` on
ClientTurns(history, from) ==
    IF from > Len(history) THEN <<>>
    ELSE LET msg == history[from]
             user_idx == IndexOf(history, msg)
             rest == ClientTurns(history, from + 1)
         IN  IF /\ msg.role = "user"
                /\ user_idx + 1 <= Len(history)
                /\ history[user_idx + 1].role = "assistant"
             THEN <<ClientTurn(history, user_idx)>> \o rest
             ELSE rest

\* lines 269-281: chat_history[-10:] is walked
ConversationHistory(history) ==
    ClientTurns(history, IF Len(history) > CLIENT_WINDOW
                         THEN Len(history) - CLIENT_WINDOW + 1
                         ELSE 1)

ClientPrompts == {"¿Cuántos usuarios hay?", "¿y hombres?"}

\* what make_api_request("/mindsdb/chat", ...) returns for the n-th input:
\* a success with answer and SQL, a success with an answer only, or anything
\* else (HTTP error, no connection, success false)
ChatResults(n) ==
    { [ok |-> TRUE, answer |-> "Respuesta " \o ToString(n),
       sql |-> S("SELECT " \o ToString(n))],
      [ok |-> TRUE, answer |-> "Respuesta " \o ToString(n), sql |-> PyNone],
      [ok |-> FALSE, answer |-> "", sql |-> PyNone] }

\* lines 290-310: the assistant message appended for a result
ReplyMessage(result) ==
    IF result.ok
    THEN AssistantMessage(result.answer, IF Truthy(result.sql) THEN result.sql ELSE Missing)
    ELSE AssistantMessage(CHAT_ERROR_MESSAGE, Missing)

ClientInit ==
    /\ collectionOk = TRUE
    /\ store = <<>>
    /\ nextId = 1
    /\ IdleHandler
    /\ out = NoOut

\* process_chat_input(prompt), lines 262-310
ProcessChatInput ==
    /\ Len(chat_history) < 2 * MaxTurns
    /\ \E prompt \in ClientPrompts :
          LET asked == Append(chat_history, UserMessage(prompt))
          IN  \E result \in ChatResults(Len(asked) \div 2 + 1) :
                 /\ req' = [query |-> prompt, history |-> ConversationHistory(asked)]
                 /\ chat_history' = Append(asked, ReplyMessage(result))
    /\ UNCHANGED <<pool, trainer, collectionOk, store, nextId, pc, sql, results, resp,
                   escaped, calls, out>>

\* the "clear chat" button, line 184
ClearChat ==
    /\ chat_history # <<>>
    /\ chat_history' = <<>>
    /\ req' = NoRequest
    /\ UNCHANGED <<pool, trainer, collectionOk, store, nextId, pc, sql, results, resp,
                   escaped, calls, out>>

ClientNext ==
    \/ ProcessChatInput
    \/ ClearChat

ClientSpec == ClientInit /\ [][ClientNext]_vars

\* the positions, in the chat history as it was when the request was sent,
\* of the earlier user messages that lie in the client's window
WindowQuestions ==
    LET n == Len(chat_history) - 1
    IN  SelectSeq([i \in 1..n |-> i],
                  LAMBDA i : /\ i < n
                             /\ i > n - CLIENT_WINDOW
                             /\ chat_history[i].role = "user")

\* C30: after any sequence of chat inputs the history the client sends
\* lists at most 5 turns in order of occurrence; each turn pairs a user
\* question of the window with the reply, and the reply's SQL, that
\* immediately followed that very message, also when the same question text
\* was asked more than once; the current question is not part of it.
C30_ClientHistoryPairsEachQuestionWithItsReply ==
    (req.query # "" /\ chat_history # <<>>) =>
        /\ Len(req.history) <= 5
        /\ Len(req.history) = Len(WindowQuestions)
        /\ \A k \in 1..Len(WindowQuestions) :
              (k <= Len(req.history)) =>
                 LET i == WindowQuestions[k]
                 IN  /\ req.history[k].question = chat_history[i].content
                     /\ req.history[k].answer = chat_history[i + 1].content
                     /\ req.history[k].sql = GetOr(chat_history[i + 1].sql, S("")).s

===========================================================================
